---- MODULE Spec2Model ----
(***************************************************************************)
(* A model of the blurry blur-scoring engine: the composite scorer with    *)
(* its two normalisation modes, the patch-based detector, the BlurDetector *)
(* facade with its batch loop, and the Calibration statistics engine.      *)
(*                                                                         *)
(* JavaScript numbers are modelled as exact rationals together with the    *)
(* IEEE-754 special values NaN, +Infinity and -Infinity, and the value     *)
(* undefined.  Rounding error of binary floating point is not modelled.    *)
(***************************************************************************)
EXTENDS Integers, Sequences, FiniteSets, TLC

(***************************************************************************)
(* Bounds of the model.                                                    *)
(***************************************************************************)
\* Largest number of files in one batch run.
MaxFiles == 2
\* Largest number of results handed to computeStats.
MaxCorpus == 2
\* Largest number of setThreshold calls in one run.
MaxSets == 1

(***************************************************************************)
(* JavaScript numbers.                                                     *)
(***************************************************************************)
Abs(a) == IF a < 0 THEN -a ELSE a

RECURSIVE Gcd(_, _)
Gcd(a, b) == IF b = 0 THEN a ELSE Gcd(b, a % b)

\* The rational n/d (d # 0) in lowest terms with a positive denominator.
Fin(n, d) ==
  LET s == IF d < 0 THEN -1 ELSE 1
      g == Gcd(Abs(n), Abs(d))
  IN  [t |-> "fin", n |-> (s * n) \div g, d |-> (s * d) \div g]

Num(i) == [t |-> "fin", n |-> i, d |-> 1]
NaN == [t |-> "nan", n |-> 0, d |-> 1]
PosInf == [t |-> "inf", n |-> 1, d |-> 1]
NegInf == [t |-> "inf", n |-> -1, d |-> 1]
Undefined == [t |-> "undef", n |-> 0, d |-> 1]

IsFin(a) == a.t = "fin"
\* NaN, and undefined converted to a number.
IsNaN(a) == a.t \in {"nan", "undef"}
Sign(a) == IF a.n > 0 THEN 1 ELSE IF a.n < 0 THEN -1 ELSE 0
Inf(s) == IF s > 0 THEN PosInf ELSE NegInf

Neg(a) == IF IsNaN(a) THEN NaN ELSE [a EXCEPT !.n = -a.n]

\* a + b
Add(a, b) ==
  IF IsNaN(a) \/ IsNaN(b) THEN NaN
  ELSE IF a.t = "inf" /\ b.t = "inf" THEN (IF a.n = b.n THEN a ELSE NaN)
  ELSE IF a.t = "inf" THEN a
  ELSE IF b.t = "inf" THEN b
  ELSE LET g == Gcd(a.d, b.d)
       IN  Fin(a.n * (b.d \div g) + b.n * (a.d \div g), (a.d \div g) * b.d)

\* a - b
Sub(a, b) == Add(a, Neg(b))

\* a * b
Mul(a, b) ==
  IF IsNaN(a) \/ IsNaN(b) THEN NaN
  ELSE IF a.t = "inf" \/ b.t = "inf"
       THEN (IF Sign(a) * Sign(b) = 0 THEN NaN ELSE Inf(Sign(a) * Sign(b)))
  ELSE LET g1 == Gcd(Abs(a.n), b.d)
           g2 == Gcd(Abs(b.n), a.d)
       IN  Fin((a.n \div g1) * (b.n \div g2), (a.d \div g2) * (b.d \div g1))

\* a / b; a finite non-zero number divided by zero is an infinity, 0/0 is NaN.
Div(a, b) ==
  IF IsNaN(a) \/ IsNaN(b) THEN NaN
  ELSE IF a.t = "inf" /\ b.t = "inf" THEN NaN
  ELSE IF a.t = "inf" THEN Inf(IF Sign(b) < 0 THEN -Sign(a) ELSE Sign(a))
  ELSE IF b.t = "inf" THEN Num(0)
  ELSE IF b.n = 0 THEN (IF a.n = 0 THEN NaN ELSE Inf(Sign(a)))
  ELSE Mul(a, Fin(b.d, b.n))

\* a < b; any comparison with NaN is false.
Lt(a, b) ==
  IF IsNaN(a) \/ IsNaN(b) THEN FALSE
  ELSE IF a.t = "inf" THEN a.n < 0 /\ ~(b.t = "inf" /\ b.n < 0)
  ELSE IF b.t = "inf" THEN b.n > 0
  ELSE IF a.n \div a.d # b.n \div b.d THEN a.n \div a.d < b.n \div b.d
  ELSE LET g == Gcd(a.d, b.d)
       IN  (a.n % a.d) * (b.d \div g) < (b.n % b.d) * (a.d \div g)

Le(a, b) == ~IsNaN(a) /\ ~IsNaN(b) /\ ~Lt(b, a)

MathMin(a, b) == IF IsNaN(a) \/ IsNaN(b) THEN NaN ELSE IF Lt(b, a) THEN b ELSE a
MathMax(a, b) == IF IsNaN(a) \/ IsNaN(b) THEN NaN ELSE IF Lt(a, b) THEN b ELSE a

\* Math.floor and Math.ceil of a finite number, as integers.
Floor(a) == a.n \div a.d
Ceil(a) == -((-a.n) \div a.d)

\* Math.round(a): the nearest integer, halves rounded up.
MathRound(a) == IF IsFin(a) THEN Num((2 * a.n + a.d) \div (2 * a.d)) ELSE a

\* Math.round(a * 100) / 100, computed on the fractional part of a.
Round2(a) ==
  IF IsFin(a)
  THEN Add(Num(Floor(a)), Div(MathRound(Fin(100 * (a.n % a.d), a.d)), Num(100)))
  ELSE a

\* JavaScript truthiness of a number or undefined.
Truthy(a) == ~IsNaN(a) /\ ~(IsFin(a) /\ a.n = 0)

\* a is a number within [lo, hi].
InRange(a, lo, hi) == Le(Num(lo), a) /\ Le(a, Num(hi))

(***************************************************************************)
(* Exceptions: a call either returns a value or throws an Error whose      *)
(* message is the sequence of the nested message parts, outermost first.   *)
(***************************************************************************)
Return(v) == [ok |-> TRUE, v |-> v]
Throw(msg) == [ok |-> FALSE, msg |-> msg]

(***************************************************************************)
(* Decoded images.  An image buffer is represented by what the focus       *)
(* kernels compute from it: the four raw scores, or, for each kernel in    *)
(* `fails`, the failure to decode it.  The buffer of a patch is cut out of *)
(* the image at grid position (x, y).                                      *)
(***************************************************************************)
Kernels == <<"laplacian", "gradient", "tenengrad", "variance">>
KernelSet == {Kernels[i] : i \in 1..4}

Raw(l, g, t, v) == [laplacian |-> l, gradient |-> g, tenengrad |-> t, variance |-> v]

\* Raw kernel outputs the model's images are made of: a flat image, one whose
\* hand-tuned composite is exactly 30, a middling one and a very sharp one
\* whose Tenengrad exceeds the hand-tuned range.
RawPalette ==
  << Raw(Num(0), Num(0), Num(0), Num(0)),
     Raw(Num(50), Num(0), Num(0), Num(0)),
     Raw(Num(25), Num(9), Num(100000), Num(500)),
     Raw(Num(60), Num(45), Num(1000000000), Num(2000)) >>

\* Math.log10 of a positive finite number, exact at the powers of ten and
\* interpolated linearly between two consecutive powers (strictly increasing).
RECURSIVE Pow10(_)
Pow10(k) == IF k = 0 THEN 1 ELSE 10 * Pow10(k - 1)

RECURSIVE Decade(_, _)
Decade(a, k) ==
  IF k >= 9 THEN 9
  ELSE IF Lt(a, Num(Pow10(k + 1))) THEN k
  ELSE Decade(a, k + 1)

RECURSIVE NegDecade(_, _)
NegDecade(a, k) ==
  IF k >= 9 THEN -9
  ELSE IF Le(Fin(1, Pow10(k)), a) THEN -k
  ELSE NegDecade(a, k + 1)

Log10(a) ==
  IF a.t = "inf" THEN a
  ELSE LET k == IF Le(Num(1), a) THEN Decade(a, 0) ELSE NegDecade(a, 1)
           p == IF k >= 0 THEN Num(Pow10(k)) ELSE Fin(1, Pow10(-k))
       IN  Add(Num(k), Div(Sub(Div(a, p), Num(1)), Num(9)))

(***************************************************************************)
(* The four focus-measure kernels: calculateBlurScore of the Laplacian,    *)
(* Gradient, Tenengrad and Variance detectors on one buffer.               *)
(***************************************************************************)
KernelMessage(k) ==
  CASE k = "laplacian" -> "Failed to calculate blur score"
    [] k = "gradient" -> "Failed to calculate gradient score"
    [] k = "tenengrad" -> "Failed to calculate Tenengrad score"
    [] k = "variance" -> "Failed to calculate variance score"

KernelScore(k, buffer) ==
  IF k \in buffer.fails
  THEN Throw(<<KernelMessage(k), "Input buffer contains unsupported image format">>)
  ELSE Return(buffer.raw[k])

(***************************************************************************)
(* The kernels on the pixels of a grayscale buffer: data is the sequence   *)
(* of the bytes sharp returns, row after row.                              *)
(***************************************************************************)
\* The largest r with r * r <= v.
IntegerRoot(v) == CHOOSE r \in 0..(v + 1) : r * r <= v /\ v < (r + 1) * (r + 1)

\* Math.sqrt of a whole number, rounded down to a multiple of 1/16: exact at
\* the squares.
MathSqrt(v) == IF v <= 0 THEN Num(0) ELSE Fin(IntegerRoot(256 * v), 16)

\* pixels[y * width + x], 0-based.
PixelAt(pixels, width, x, y) == pixels[y * width + x + 1]

\* x and y of the 0-based index, and whether the loops y = 1..height-2,
\* x = 1..width-2 visit it.
Interior(idx, width, height) ==
  /\ 1 <= idx % width /\ idx % width < width - 1
  /\ 1 <= idx \div width /\ idx \div width < height - 1

\* applyLaplacian with a centre weight of -3.
applyLaplacianUnbalanced(pixels, width, height) ==
  [i \in 1..Len(pixels) |->
     IF Interior(i - 1, width, height)
     THEN PixelAt(pixels, width, (i - 1) % width, ((i - 1) \div width) - 1)
          + PixelAt(pixels, width, ((i - 1) % width) - 1, (i - 1) \div width)
          + PixelAt(pixels, width, (i - 1) % width, (i - 1) \div width) * (-3)
          + PixelAt(pixels, width, ((i - 1) % width) + 1, (i - 1) \div width)
          + PixelAt(pixels, width, (i - 1) % width, ((i - 1) \div width) + 1)
     ELSE 0]

\* LaplacianDetector.applyLaplacian: the 3x3 kernel at every interior pixel;
\* the border entries of the Float32Array stay 0.
applyLaplacian(pixels, width, height) ==
  [i \in 1..Len(pixels) |->
     IF Interior(i - 1, width, height)
     THEN PixelAt(pixels, width, (i - 1) % width, ((i - 1) \div width) - 1)
          + PixelAt(pixels, width, ((i - 1) % width) - 1, (i - 1) \div width)
          + PixelAt(pixels, width, (i - 1) % width, (i - 1) \div width) * (-4)
          + PixelAt(pixels, width, ((i - 1) % width) + 1, (i - 1) \div width)
          + PixelAt(pixels, width, (i - 1) % width, ((i - 1) \div width) + 1)
     ELSE 0]

\* The sum of the first k numbers of a sequence of whole numbers.
RECURSIVE IntegerSum(_, _)
IntegerSum(data, k) == IF k = 0 THEN 0 ELSE IntegerSum(data, k - 1) + data[k]

\* The sum of the first k numbers of a sequence of numbers.
RECURSIVE NumberSum(_, _)
NumberSum(data, k) == IF k = 0 THEN Num(0) ELSE Add(NumberSum(data, k - 1), data[k])

\* The mean of the squared differences from the mean.
VarianceAround(data, mean) ==
  Div(NumberSum([i \in 1..Len(data) |->
                   Mul(Sub(Num(data[i]), mean), Sub(Num(data[i]), mean))],
                Len(data)),
      Num(Len(data)))

\* LaplacianDetector.calculateVariance(data)
calculateVariance(data) ==
  VarianceAround(data, Div(Num(IntegerSum(data, Len(data))), Num(Len(data))))

\* VarianceDetector.calculateVariance(pixels)
GraylevelVariance(pixels) ==
  VarianceAround(pixels, Div(Num(IntegerSum(pixels, Len(pixels))), Num(Len(pixels))))

\* calculateGradients of GradientDetector and of TenengradDetector: the two
\* Sobel kernels at every interior pixel.
SobelX(pixels, width, x, y) ==
  PixelAt(pixels, width, x - 1, y - 1) * (-1) + PixelAt(pixels, width, x + 1, y - 1)
  + PixelAt(pixels, width, x - 1, y) * (-2) + PixelAt(pixels, width, x + 1, y) * 2
  + PixelAt(pixels, width, x - 1, y + 1) * (-1) + PixelAt(pixels, width, x + 1, y + 1)

SobelY(pixels, width, x, y) ==
  PixelAt(pixels, width, x - 1, y - 1) * (-1) + PixelAt(pixels, width, x, y - 1) * (-2)
  + PixelAt(pixels, width, x + 1, y - 1) * (-1) + PixelAt(pixels, width, x - 1, y + 1)
  + PixelAt(pixels, width, x, y + 1) * 2 + PixelAt(pixels, width, x + 1, y + 1)

calculateGradients(pixels, width, height) ==
  [gx |-> [i \in 1..Len(pixels) |->
             IF Interior(i - 1, width, height)
             THEN SobelX(pixels, width, (i - 1) % width, (i - 1) \div width) ELSE 0],
   gy |-> [i \in 1..Len(pixels) |->
             IF Interior(i - 1, width, height)
             THEN SobelY(pixels, width, (i - 1) % width, (i - 1) \div width) ELSE 0]]

\* GradientDetector.calculateMagnitude(gx, gy)
calculateMagnitude(gx, gy) ==
  [i \in 1..Len(gx) |-> MathSqrt(gx[i] * gx[i] + gy[i] * gy[i])]

\* The mean magnitude GradientDetector.calculateBlurScore returns.
GradientMean(magnitude) ==
  Div(NumberSum(magnitude, Len(magnitude)), Num(Len(magnitude)))

\* The squaredMagnitude array of TenengradDetector.calculateBlurScore.
SquaredMagnitude(gradients) ==
  [i \in 1..Len(gradients.gx) |->
     gradients.gx[i] * gradients.gx[i] + gradients.gy[i] * gradients.gy[i]]

\* calculateBlurScore of the four detectors on what sharp decodes from the
\* buffer; a buffer sharp cannot decode makes each of them throw.
KernelOnPixels(k, decoded) ==
  IF ~decoded.decodable
  THEN Throw(<<KernelMessage(k), "Input buffer contains unsupported image format">>)
  ELSE CASE k = "laplacian" ->
              Return(calculateVariance(applyLaplacian(decoded.data, decoded.width,
                                                      decoded.height)))
         [] k = "gradient" ->
              Return(GradientMean(calculateMagnitude(
                       calculateGradients(decoded.data, decoded.width, decoded.height).gx,
                       calculateGradients(decoded.data, decoded.width, decoded.height).gy)))
         [] k = "tenengrad" ->
              Return(calculateVariance(SquaredMagnitude(
                       calculateGradients(decoded.data, decoded.width, decoded.height))))
         [] k = "variance" -> Return(GraylevelVariance(decoded.data))

(***************************************************************************)
(* CompositeDetector                                                       *)
(***************************************************************************)
NoStats == [none |-> TRUE]
HasStats(stats) == "none" \notin DOMAIN stats

\* new CompositeDetector(options)
CompositeDetector(calibrationStats) ==
  [calibrationStats |-> calibrationStats, useCalibration |-> HasStats(calibrationStats)]

\* CompositeDetector.clip
Clip(value, min, max) == MathMax(min, MathMin(max, value))

\* The zero guard of the logarithm: x > 0 ? Math.log10(x) : 0
GuardedLog10(x) == IF Lt(Num(0), x) THEN Log10(x) ELSE Num(0)

normalizeHandTuned(raw) ==
  LET tenengradLog == GuardedLog10(raw.tenengrad)
  IN  [laplacian |-> MathMin(Num(100), Div(raw.laplacian, Fin(1, 2))),
       gradient |-> MathMin(Num(100), Div(raw.gradient, Fin(3, 10))),
       tenengrad |-> MathMax(Num(0), MathMin(Num(100),
                       Mul(Div(Sub(tenengradLog, Num(2)), Num(6)), Num(100)))),
       variance |-> MathMin(Num(100), Div(raw.variance, Num(10)))]

\* 100 * clip((score - p5) / (p95 - p5), 0, 1)
PercentileMap(score, p5, p95) ==
  Mul(Num(100), Clip(Div(Sub(score, p5), Sub(p95, p5)), Num(0), Num(1)))

normalizePercentile(stats, raw) ==
  [laplacian |-> PercentileMap(raw.laplacian, stats.laplacian.p5, stats.laplacian.p95),
   gradient |-> PercentileMap(raw.gradient, stats.gradient.p5, stats.gradient.p95),
   tenengrad |-> PercentileMap(GuardedLog10(raw.tenengrad),
                               GuardedLog10(stats.tenengrad.p5),
                               GuardedLog10(stats.tenengrad.p95)),
   variance |-> PercentileMap(raw.variance, stats.variance.p5, stats.variance.p95)]

\* The weights of the composite score.
WeightLaplacian == Fin(30, 100)
WeightGradient == Fin(20, 100)
WeightTenengrad == Fin(40, 100)
WeightVariance == Fin(10, 100)

\* The weighted average with the Laplacian and Tenengrad weights exchanged.
WeightedAverageExchanged(normalized) ==
  Add(Add(Add(Mul(normalized.laplacian, WeightTenengrad),
              Mul(normalized.gradient, WeightGradient)),
          Mul(normalized.tenengrad, WeightLaplacian)),
      Mul(normalized.variance, WeightVariance))

WeightedAverage(normalized) ==
  Add(Add(Add(Mul(normalized.laplacian, WeightLaplacian),
              Mul(normalized.gradient, WeightGradient)),
          Mul(normalized.tenengrad, WeightTenengrad)),
      Mul(normalized.variance, WeightVariance))

\* The scores object calculateBlurScore returns: the weighted average and
\* the raw and normalized channels.
CompositeScores(raw, normalized) ==
  [composite |-> WeightedAverage(normalized),
   laplacian |-> raw.laplacian,
   gradient |-> raw.gradient,
   tenengrad |-> raw.tenengrad,
   variance |-> raw.variance,
   normalized |-> normalized]

\* The normalisation calculateBlurScore applies: by the calibration record
\* when the detector has one, hand-tuned otherwise.
Normalize(det, raw) ==
  IF det.useCalibration
  THEN normalizePercentile(det.calibrationStats, raw)
  ELSE normalizeHandTuned(raw)

\* CompositeDetector.calculateBlurScore.  The four kernels run under
\* Promise.all; when some fail, `first` is the kernel whose rejection arrives
\* first and its message is the one reported.
CompositeScore(det, buffer, first) ==
  IF buffer.fails # {}
  THEN Throw(<<"Failed to calculate composite score">> \o KernelScore(first, buffer).msg)
  ELSE Return(CompositeScores(buffer.raw, Normalize(det, buffer.raw)))

\* CompositeDetector.isBlurry(scores, threshold = 30)
CompositeIsBlurry(scores, threshold) ==
  Lt(scores.composite, IF threshold.t = "undef" THEN Num(30) ELSE threshold)

(***************************************************************************)
(* Array helpers.                                                          *)
(***************************************************************************)
RECURSIVE SumSeq(_)
SumSeq(s) == IF s = <<>> THEN Num(0) ELSE Add(SumSeq(SubSeq(s, 1, Len(s) - 1)), s[Len(s)])

\* Math.max(...arr) and Math.min(...arr); of no arguments -Infinity, +Infinity.
RECURSIVE MaxSeq(_)
MaxSeq(s) == IF s = <<>> THEN NegInf ELSE MathMax(MaxSeq(Tail(s)), Head(s))

RECURSIVE MinSeq(_)
MinSeq(s) == IF s = <<>> THEN PosInf ELSE MathMin(MinSeq(Tail(s)), Head(s))

\* arr.slice(0, n)
Slice(s, n) == SubSeq(s, 1, IF n < Len(s) THEN n ELSE Len(s))

\* arr.sort((a, b) => a - b): a stable sort, here by insertion; x goes in
\* front of the first element the comparator puts it before.
NumBefore(a, b) == Lt(Sub(a, b), Num(0))

RECURSIVE InsertAscending(_, _)
InsertAscending(x, s) ==
  IF s = <<>> THEN <<x>>
  ELSE IF NumBefore(x, s[Len(s)]) THEN InsertAscending(x, SubSeq(s, 1, Len(s) - 1)) \o <<s[Len(s)]>>
  ELSE s \o <<x>>

RECURSIVE SortAscending(_)
SortAscending(s) ==
  IF s = <<>> THEN <<>>
  ELSE InsertAscending(s[Len(s)], SortAscending(SubSeq(s, 1, Len(s) - 1)))

\* arr.sort((a, b) => b.composite - a.composite), stable likewise.
CompositeBefore(a, b) == Lt(Sub(b.composite, a.composite), Num(0))

RECURSIVE InsertByComposite(_, _)
InsertByComposite(x, s) ==
  IF s = <<>> THEN <<x>>
  ELSE IF CompositeBefore(x, s[Len(s)]) THEN InsertByComposite(x, SubSeq(s, 1, Len(s) - 1)) \o <<s[Len(s)]>>
  ELSE s \o <<x>>

RECURSIVE SortByCompositeDescending(_)
SortByCompositeDescending(s) ==
  IF s = <<>> THEN <<>>
  ELSE InsertByComposite(s[Len(s)], SortByCompositeDescending(SubSeq(s, 1, Len(s) - 1)))

(***************************************************************************)
(* PatchBasedDetector                                                      *)
(***************************************************************************)
\* new PatchBasedDetector(options); patchSize is options.patchSize || 8.
PatchBasedDetector(calibrationStats, patchSize) ==
  [compositeDetector |-> CompositeDetector(calibrationStats),
   patchSize |-> patchSize,
   calibrationStats |-> calibrationStats]

\* The buffer sharp extracts for the patch at grid position (x, y).
PatchBuffer(image, x, y, patchesX) ==
  LET idx == y * patchesX + x
  IN  [fails |-> image.patchFails,
       raw |-> RawPalette[image.pattern[(idx % Len(image.pattern)) + 1]]]

\* divideIntoPatches with Math.ceil in place of Math.floor for the patch size.
divideIntoPatchesCeil(image, patchesX, patchesY) ==
  LET patchWidth == -((-image.width) \div patchesX)
      patchHeight == -((-image.height) \div patchesY)
      Patch(i) == LET x == (i - 1) % patchesX
                      y == (i - 1) \div patchesX
                  IN  [x |-> x, y |-> y,
                       left |-> x * patchWidth, top |-> y * patchHeight,
                       width |-> patchWidth, height |-> patchHeight,
                       buffer |-> PatchBuffer(image, x, y, patchesX)]
  IN  IF patchesX <= 0 \/ patchesY <= 0 THEN Return(<<>>)
      ELSE IF patchWidth < 1 \/ patchHeight < 1
           THEN Throw(<<"extract_area: bad extract area">>)
      ELSE Return([i \in 1..(patchesX * patchesY) |-> Patch(i)])

\* PatchBasedDetector.divideIntoPatches: row-major, patch (x, y) at
\* left = x * floor(width / patchesX), top = y * floor(height / patchesY).
\* sharp refuses to extract a region without pixels.
divideIntoPatches(image, patchesX, patchesY) ==
  LET patchWidth == image.width \div patchesX
      patchHeight == image.height \div patchesY
      Patch(i) == LET x == (i - 1) % patchesX
                      y == (i - 1) \div patchesX
                  IN  [x |-> x, y |-> y,
                       left |-> x * patchWidth, top |-> y * patchHeight,
                       width |-> patchWidth, height |-> patchHeight,
                       buffer |-> PatchBuffer(image, x, y, patchesX)]
  IN  IF patchesX <= 0 \/ patchesY <= 0 THEN Return(<<>>)
      ELSE IF patchWidth < 1 \/ patchHeight < 1
           THEN Throw(<<"extract_area: bad extract area">>)
      ELSE Return([i \in 1..(patchesX * patchesY) |-> Patch(i)])

\* percentile interpolating in the array as handed in, without sorting it.
PatchPercentileUnsorted(arr, p) ==
  IF Len(arr) = 0 THEN Num(0)
  ELSE LET index == Mul(Fin(p, 100), Num(Len(arr) - 1))
           lower == Floor(index)
           upper == Ceil(index)
           weight == Sub(index, Num(lower))
       IN  IF upper >= Len(arr) THEN arr[Len(arr)]
           ELSE Add(Mul(arr[lower + 1], Sub(Num(1), weight)),
                    Mul(arr[upper + 1], weight))

\* PatchBasedDetector.percentile(arr, p): sorts a copy, then interpolates
\* linearly at the fractional rank p/100 * (n - 1).
PatchPercentile(arr, p) ==
  IF Len(arr) = 0 THEN Num(0)
  ELSE LET sorted == SortAscending(arr)
           index == Mul(Fin(p, 100), Num(Len(sorted) - 1))
           lower == Floor(index)
           upper == Ceil(index)
           weight == Sub(index, Num(lower))
       IN  IF upper >= Len(sorted) THEN sorted[Len(sorted)]
           ELSE Add(Mul(sorted[lower + 1], Sub(Num(1), weight)),
                    Mul(sorted[upper + 1], weight))

\* Math.exp(-q) for q >= 0: the positive, decreasing 1 / (1 + q + q^2/2),
\* which is 1 at q = 0, rounded up to a multiple of 1/64.
ExpNeg(q) ==
  IF IsNaN(q) THEN NaN
  ELSE IF q.t = "inf" THEN Num(0)
  ELSE Fin(Ceil(Div(Num(64), Add(Add(Num(1), q), Div(Mul(q, q), Num(2))))), 64)

\* The Gaussian position weight of patch i (0-based) in the grid:
\* exp(-distance^2 / (2 sigma^2)), distance measured from the grid centre in
\* units of the centre's own coordinates.
PositionWeight(i, patchesX, patchesY, sigma) ==
  LET centerX == Fin(patchesX - 1, 2)
      centerY == Fin(patchesY - 1, 2)
      x == i % patchesX
      y == i \div patchesX
      dx == Div(Sub(Num(x), centerX), centerX)
      dy == Div(Sub(Num(y), centerY), centerY)
      distanceSq == Add(Mul(dx, dx), Mul(dy, dy))
  IN  ExpNeg(Div(distanceSq, Mul(Num(2), Mul(sigma, sigma))))

\* weightedSum / totalWeight over patches carrying composite and positionWeight
WeightedMean(patches) ==
  Div(SumSeq([i \in 1..Len(patches) |->
                Mul(patches[i].composite, patches[i].positionWeight)]),
      SumSeq([i \in 1..Len(patches) |-> patches[i].positionWeight]))

WithPositionWeights(patchScores, patchesX, patchesY, sigma) ==
  [i \in 1..Len(patchScores) |->
     [composite |-> patchScores[i].composite,
      positionWeight |-> PositionWeight(i - 1, patchesX, patchesY, sigma),
      index |-> i - 1]]

calculateCenterWeighted(patchScores, patchesX, patchesY) ==
  WeightedMean(WithPositionWeights(patchScores, patchesX, patchesY, Fin(1, 2)))

\* Math.ceil(n * topPercent) in double arithmetic.  The double nearest 0.28
\* lies above 0.28, and n * 0.28 rounds to the double above the integer
\* 28 n / 100 whenever 25 divides n (25 * 0.28 is 7.000000000000001); with
\* the five other topPercent values the product is the exact integer
\* whenever n * topPercent is one, for every grid of up to 32 by 32 patches.
CeilOfProduct(n, topPercent) ==
  IF topPercent = Fin(28, 100) /\ n > 0 /\ n % 25 = 0
  THEN Ceil(Mul(Num(n), topPercent)) + 1
  ELSE Ceil(Mul(Num(n), topPercent))

\* Math.max(3, Math.ceil(n * topPercent))
TopN(n, topPercent) ==
  IF CeilOfProduct(n, topPercent) > 3 THEN CeilOfProduct(n, topPercent) ELSE 3

\* topPatches of calculateSubjectFocusVariant: the patches with their position
\* weights, sorted by composite (highest first) and cut to the first topN.
SubjectFocusTopPatches(patchScores, patchesX, patchesY, topPercent, sigma) ==
  Slice(SortByCompositeDescending(
          WithPositionWeights(patchScores, patchesX, patchesY, sigma)),
        TopN(Len(patchScores), topPercent))

calculateSubjectFocusVariant(patchScores, patchesX, patchesY, topPercent, sigma) ==
  WeightedMean(SubjectFocusTopPatches(patchScores, patchesX, patchesY, topPercent, sigma))

\* PatchBasedDetector.clip
PatchClip(value, min, max) == MathMin(MathMax(value, min), max)

\* calculatePeakFocus averaging the Tenengrad of the top four patches.
calculatePeakFocusTopFour(det, patchScores) ==
  LET sorted == SortByCompositeDescending(patchScores)
      topPatches == Slice(sorted, 4)
      avgTenengrad == Div(SumSeq([i \in 1..Len(topPatches) |-> topPatches[i].tenengrad]),
                          Num(Len(topPatches)))
      tenengradLog == GuardedLog10(avgTenengrad)
  IN  IF HasStats(det.calibrationStats)
      THEN LET p5Log == GuardedLog10(det.calibrationStats.tenengrad.p5)
               p95Log == GuardedLog10(det.calibrationStats.tenengrad.p95)
           IN  Mul(Num(100), PatchClip(Div(Sub(tenengradLog, p5Log), Sub(p95Log, p5Log)),
                                       Num(0), Num(1)))
      ELSE Mul(Num(100), PatchClip(Div(Sub(tenengradLog, Num(3)), Sub(Num(9), Num(3))),
                                   Num(0), Num(1)))

calculatePeakFocus(det, patchScores) ==
  LET sorted == SortByCompositeDescending(patchScores)
      topPatches == Slice(sorted, 3)
      avgTenengrad == Div(SumSeq([i \in 1..Len(topPatches) |-> topPatches[i].tenengrad]),
                          Num(Len(topPatches)))
      tenengradLog == GuardedLog10(avgTenengrad)
  IN  IF HasStats(det.calibrationStats)
      THEN LET p5Log == GuardedLog10(det.calibrationStats.tenengrad.p5)
               p95Log == GuardedLog10(det.calibrationStats.tenengrad.p95)
           IN  Mul(Num(100), PatchClip(Div(Sub(tenengradLog, p5Log), Sub(p95Log, p5Log)),
                                       Num(0), Num(1)))
      ELSE Mul(Num(100), PatchClip(Div(Sub(tenengradLog, Num(3)), Sub(Num(9), Num(3))),
                                   Num(0), Num(1)))

\* The strategies --strategy offers, and the field of the patch-based score
\* PatchBasedDetector.isBlurry reads for each.
Strategies ==
  {"max-focus", "subject-focus-aggressive", "subject-focus", "subject-focus-conservative",
   "subject-focus-relaxed", "subject-focus-strict", "subject-focus-very-strict",
   "peak-focus", "center-weighted", "top-25-percentile", "median", "average"}

\* patchScores.push({...scores, x, y}) after the patches pushed before; a
\* rejected scoring, of this patch or of an earlier one, ends the loop.
PushPatchScores(before, scores, patch) ==
  IF ~before.ok THEN before
  ELSE IF ~scores.ok THEN scores
  ELSE Return(Append(before.v,
         [composite |-> scores.v.composite,
          laplacian |-> scores.v.laplacian,
          gradient |-> scores.v.gradient,
          tenengrad |-> scores.v.tenengrad,
          variance |-> scores.v.variance,
          normalized |-> scores.v.normalized,
          x |-> patch.x,
          y |-> patch.y]))

\* The loop of calculateBlurScore over the patches, in order: each patch is
\* scored by the composite detector and pushed with its grid position.
RECURSIVE ScorePatches(_, _, _)
ScorePatches(det, patches, first) ==
  IF patches = <<>> THEN Return(<<>>)
  ELSE PushPatchScores(ScorePatches(det, SubSeq(patches, 1, Len(patches) - 1), first),
                       CompositeScore(det.compositeDetector,
                                      patches[Len(patches)].buffer, first),
                       patches[Len(patches)])

\* The aggregate statistics calculateBlurScore returns for the patch scores.
PatchScores(det, patchScores, patchesX, patchesY) ==
  LET blurMap == IF patchesY <= 0 THEN <<>>
                 ELSE [y \in 1..patchesY |->
                         [x \in 1..patchesX |->
                            patchScores[(y - 1) * patchesX + (x - 1) + 1].composite]]
      compositeScores == [i \in 1..Len(patchScores) |-> patchScores[i].composite]
      n == Len(patchScores)
      sharpPatchCount == Cardinality({i \in 1..n : Lt(Num(30), patchScores[i].composite)})
  IN  [composite |-> MaxSeq(compositeScores),
      maxFocus |-> MaxSeq(compositeScores),
      minFocus |-> MinSeq(compositeScores),
      avgFocus |-> Div(SumSeq(compositeScores), Num(n)),
      centerWeighted |-> calculateCenterWeighted(patchScores, patchesX, patchesY),
      subjectFocusAggressive |->
        calculateSubjectFocusVariant(patchScores, patchesX, patchesY, Fin(8, 100), Fin(15, 10)),
      subjectFocus |->
        calculateSubjectFocusVariant(patchScores, patchesX, patchesY, Fin(12, 100), Num(1)),
      subjectFocusConservative |->
        calculateSubjectFocusVariant(patchScores, patchesX, patchesY, Fin(18, 100), Fin(7, 10)),
      subjectFocusRelaxed |->
        calculateSubjectFocusVariant(patchScores, patchesX, patchesY, Fin(28, 100), Fin(5, 10)),
      subjectFocusStrict |->
        calculateSubjectFocusVariant(patchScores, patchesX, patchesY, Fin(38, 100), Fin(4, 10)),
      subjectFocusVeryStrict |->
        calculateSubjectFocusVariant(patchScores, patchesX, patchesY, Fin(40, 100), Fin(35, 100)),
      peakFocus |-> calculatePeakFocus(det, patchScores),
      top10Percentile |-> PatchPercentile(compositeScores, 90),
      top25Percentile |-> PatchPercentile(compositeScores, 75),
      medianFocus |-> PatchPercentile(compositeScores, 50),
      patchCount |-> Len(patchScores),
      sharpPatchCount |-> sharpPatchCount,
      sharpPatchRatio |-> Div(Num(sharpPatchCount), Num(n)),
      histogram |->
        [veryBlurry |-> Cardinality({i \in 1..n : Lt(compositeScores[i], Num(10))}),
      blurry |-> Cardinality({i \in 1..n : Le(Num(10), compositeScores[i])
                                            /\ Lt(compositeScores[i], Num(25))}),
      borderline |-> Cardinality({i \in 1..n : Le(Num(25), compositeScores[i])
                                                /\ Lt(compositeScores[i], Num(40))}),
      sharp |-> Cardinality({i \in 1..n : Le(Num(40), compositeScores[i])
                                           /\ Lt(compositeScores[i], Num(60))}),
      verySharp |-> Cardinality({i \in 1..n : Le(Num(60), compositeScores[i])})],
      blurMap |-> blurMap,
      patchScores |-> patchScores,
      patchesX |-> patchesX,
      patchesY |-> patchesY]

\* The catch block of calculateBlurScore, and the result otherwise.
PatchOutcome(det, scoredPatches, patchesX, patchesY) ==
  IF ~scoredPatches.ok
  THEN Throw(<<"Failed to calculate patch-based score">> \o scoredPatches.msg)
  ELSE Return(PatchScores(det, scoredPatches.v, patchesX, patchesY))

\* sharp(imageBuffer).metadata() and divideIntoPatches
DividePatches(det, image) ==
  IF image.corrupt
  THEN Throw(<<"Input buffer contains unsupported image format">>)
  ELSE divideIntoPatches(image, det.patchSize, det.patchSize)

\* The patches scored, unless dividing the image failed.
ScoreDivided(det, divided, first) ==
  IF divided.ok THEN ScorePatches(det, divided.v, first) ELSE divided

\* PatchBasedDetector.calculateBlurScore
PatchBasedScore(det, image, first) ==
  PatchOutcome(det, ScoreDivided(det, DividePatches(det, image), first),
               det.patchSize, det.patchSize)

\* The score PatchBasedDetector.isBlurry selects for a strategy name; any
\* other name falls to the default branch, maxFocus.
StrategyScore(scores, strategy) ==
  CASE strategy = "max-focus" -> scores.maxFocus
    [] strategy = "subject-focus-aggressive" -> scores.subjectFocusAggressive
    [] strategy = "subject-focus" -> scores.subjectFocus
    [] strategy = "subject-focus-conservative" -> scores.subjectFocusConservative
    [] strategy = "subject-focus-relaxed" -> scores.subjectFocusRelaxed
    [] strategy = "subject-focus-strict" -> scores.subjectFocusStrict
    [] strategy = "subject-focus-very-strict" -> scores.subjectFocusVeryStrict
    [] strategy = "peak-focus" -> scores.peakFocus
    [] strategy = "center-weighted" -> scores.centerWeighted
    [] strategy = "top-25-percentile" -> scores.top25Percentile
    [] strategy = "average" -> scores.avgFocus
    [] strategy = "median" -> scores.medianFocus
    [] OTHER -> scores.maxFocus

\* isBlurry comparing with <= in place of <.
PatchIsBlurryInclusive(scores, threshold, strategy) ==
  Le(StrategyScore(scores, strategy),
     IF threshold.t = "undef" THEN Num(25) ELSE threshold)

\* PatchBasedDetector.isBlurry(scores, threshold = 25, strategy = 'max-focus')
PatchIsBlurry(scores, threshold, strategy) ==
  Lt(StrategyScore(scores, strategy),
     IF threshold.t = "undef" THEN Num(25) ELSE threshold)

(***************************************************************************)
(* Files.  A path is a directory, a base name and an extension; the file   *)
(* system maps each RAW file to the preview embedded in it.                *)
(***************************************************************************)
Path(dir, name, ext) == [dir |-> dir, name |-> name, ext |-> ext]

\* path.basename(filePath)
Basename(path) == [name |-> path.name, ext |-> path.ext]

\* The RAW files of the model, in the order FileScanner.scan returns them
\* (sorted).  `preview` tells whether exiftool finds an embedded preview,
\* `encodable` whether sharp can turn it into a buffer, `corrupt` whether the
\* buffer cannot be decoded again, `fails` the kernels that fail on the whole
\* buffer and `patchFails` those that fail on a patch of it.
Image(preview, encodable, fails, patchFails, whole, pattern) ==
  [preview |-> preview, encodable |-> encodable, corrupt |-> FALSE,
   fails |-> fails, patchFails |-> patchFails,
   raw |-> RawPalette[whole], pattern |-> pattern, width |-> 64, height |-> 48]

FileNames == <<"a", "b", "c", "d", "e", "f">>

FileSystem ==
  [a |-> Image(TRUE, TRUE, {}, {}, 1, <<1>>),
   b |-> Image(TRUE, TRUE, {}, {}, 2, <<2, 1>>),
   c |-> Image(FALSE, TRUE, {}, {}, 1, <<1>>),
   d |-> Image(TRUE, TRUE, KernelSet, KernelSet, 1, <<1>>),
   e |-> Image(TRUE, TRUE, {}, {}, 4, <<4, 3, 1, 3>>),
   f |-> Image(TRUE, FALSE, {}, {}, 1, <<1>>)]

FilePath(i) == Path("photos", FileNames[i], "nef")

\* PreviewExtractor.extract followed by previewImage.toBuffer()
ExtractBuffer(filePath) ==
  LET image == FileSystem[filePath.name]
  IN  IF ~image.preview
      THEN Throw(<<"Failed to extract preview", "No preview image found in RAW file">>)
      ELSE IF ~image.encodable
      THEN Throw(<<"Input buffer contains unsupported image format">>)
      ELSE Return(image)

(***************************************************************************)
(* BlurDetector                                                            *)
(***************************************************************************)
\* An option the caller leaves out.
Omitted == "undefined"

\* opt || dflt for a string option
OrElse(opt, dflt) == IF opt = Omitted \/ opt = "" THEN dflt ELSE opt

Options(threshold, algorithm, calibrationStats, strategy, patchSize) ==
  [threshold |-> threshold, algorithm |-> algorithm,
   calibrationStats |-> calibrationStats, strategy |-> strategy,
   patchSize |-> patchSize]

\* The constructor's switch without the branch for peak-focus.
ConstructorThresholdOneDefault(options, algorithm, strategy, calibrationStats) ==
  IF algorithm \in {"laplacian", "gradient", "tenengrad", "variance"}
  THEN IF Truthy(options.threshold) THEN options.threshold ELSE Num(10)
  ELSE IF options.threshold.t # "undef" THEN options.threshold
       ELSE (IF HasStats(calibrationStats) THEN Num(25) ELSE Num(30))

\* The threshold the constructor's switch leaves in this.threshold.
ConstructorThreshold(options, algorithm, strategy, calibrationStats) ==
  IF algorithm = "patch-based"
  THEN IF options.threshold.t # "undef" THEN options.threshold
       ELSE IF strategy = "peak-focus"
            THEN (IF HasStats(calibrationStats) THEN Num(70) ELSE Num(75))
            ELSE (IF HasStats(calibrationStats) THEN Num(25) ELSE Num(30))
  ELSE IF algorithm \in {"laplacian", "gradient", "tenengrad", "variance"}
  THEN IF Truthy(options.threshold) THEN options.threshold ELSE Num(10)
  ELSE IF options.threshold.t # "undef" THEN options.threshold
       ELSE (IF HasStats(calibrationStats) THEN Num(25) ELSE Num(30))

\* The detector object the constructor's switch creates.
ConstructorDetector(algorithm, calibrationStats, patchSize) ==
  IF algorithm \in {"laplacian", "gradient", "tenengrad", "variance"}
  THEN [kind |-> algorithm, calibrationStats |-> NoStats, patchSize |-> 0]
  ELSE IF algorithm = "patch-based"
  THEN [kind |-> "patch-based", calibrationStats |-> calibrationStats,
        patchSize |-> patchSize]
  ELSE [kind |-> "composite", calibrationStats |-> calibrationStats, patchSize |-> 0]

\* new BlurDetector(options)
BlurDetector(options) ==
  LET algorithm == OrElse(options.algorithm, "composite")
      calibrationStats == options.calibrationStats
      strategy == OrElse(options.strategy, "average")
      patchSize == IF Truthy(options.patchSize) THEN options.patchSize.n ELSE 8
  IN  [threshold |-> ConstructorThreshold(options, algorithm, strategy, calibrationStats),
       algorithm |-> algorithm,
       calibrationStats |-> calibrationStats,
       strategy |-> strategy,
       patchSize |-> patchSize,
       detector |-> ConstructorDetector(algorithm, calibrationStats, patchSize)]

\* this.detector.calculateBlurScore(buffer)
DetectorScore(detector, buffer, first) ==
  IF detector.kind = "patch-based"
  THEN PatchBasedScore(PatchBasedDetector(detector.calibrationStats, detector.patchSize),
                       buffer, first)
  ELSE IF detector.kind = "composite"
  THEN CompositeScore(CompositeDetector(detector.calibrationStats), buffer, first)
  ELSE KernelScore(detector.kind, buffer)

\* isBlurry(score, threshold = d) of the four single-algorithm detectors
SingleDefaultThreshold(kind) ==
  CASE kind = "laplacian" -> Num(100)
    [] kind = "gradient" -> Num(10)
    [] kind = "tenengrad" -> Num(1000)
    [] kind = "variance" -> Num(100)

SingleIsBlurry(kind, score, threshold) ==
  Lt(score, IF threshold.t = "undef" THEN SingleDefaultThreshold(kind) ELSE threshold)

\* The blurScore analyze reports for a patch-based score: the rounded score of
\* the strategy named in its switch, avgFocus for any other name.
ReportedStrategyScore(rawScore, strategy) ==
  CASE strategy = "max-focus" -> rawScore.maxFocus
    [] strategy = "subject-focus-aggressive" -> rawScore.subjectFocusAggressive
    [] strategy = "subject-focus" -> rawScore.subjectFocus
    [] strategy = "subject-focus-conservative" -> rawScore.subjectFocusConservative
    [] strategy = "subject-focus-relaxed" -> rawScore.subjectFocusRelaxed
    [] strategy = "subject-focus-strict" -> rawScore.subjectFocusStrict
    [] strategy = "subject-focus-very-strict" -> rawScore.subjectFocusVeryStrict
    [] strategy = "peak-focus" -> rawScore.peakFocus
    [] strategy = "center-weighted" -> rawScore.centerWeighted
    [] strategy = "top-25-percentile" -> rawScore.top25Percentile
    [] strategy = "median" -> rawScore.medianFocus
    [] OTHER -> rawScore.avgFocus

\* The scores record analyze attaches to a patch-based result.
PatchResultScores(rawScore) ==
  [maxFocus |-> Round2(rawScore.maxFocus),
   minFocus |-> Round2(rawScore.minFocus),
   avgFocus |-> Round2(rawScore.avgFocus),
   centerWeighted |-> Round2(rawScore.centerWeighted),
   subjectFocusAggressive |-> Round2(rawScore.subjectFocusAggressive),
   subjectFocus |-> Round2(rawScore.subjectFocus),
   subjectFocusConservative |-> Round2(rawScore.subjectFocusConservative),
   subjectFocusRelaxed |-> Round2(rawScore.subjectFocusRelaxed),
   subjectFocusStrict |-> Round2(rawScore.subjectFocusStrict),
   subjectFocusVeryStrict |-> Round2(rawScore.subjectFocusVeryStrict),
   peakFocus |-> Round2(rawScore.peakFocus),
   top10Percentile |-> Round2(rawScore.top10Percentile),
   top25Percentile |-> Round2(rawScore.top25Percentile),
   medianFocus |-> Round2(rawScore.medianFocus),
   sharpPatchCount |-> rawScore.sharpPatchCount,
   sharpPatchRatio |-> Div(MathRound(Mul(rawScore.sharpPatchRatio, Num(1000))), Num(10)),
   histogram |-> rawScore.histogram,
   blurMap |-> rawScore.blurMap,
   patchScores |-> rawScore.patchScores,
   patchesX |-> rawScore.patchesX,
   patchesY |-> rawScore.patchesY]

\* The scores record analyze attaches to a composite result.
CompositeResultScores(rawScore) ==
  [composite |-> Round2(rawScore.composite),
   laplacian |-> Round2(rawScore.laplacian),
   gradient |-> Round2(rawScore.gradient),
   tenengrad |-> Round2(rawScore.tenengrad),
   variance |-> Round2(rawScore.variance),
   normalized |-> [laplacian |-> Round2(rawScore.normalized.laplacian),
                   gradient |-> Round2(rawScore.normalized.gradient),
                   tenengrad |-> Round2(rawScore.normalized.tenengrad),
                   variance |-> Round2(rawScore.normalized.variance)]]

\* What the try block of analyze computes up to the score: the preview is
\* extracted and encoded, then scored by this.detector.
TryScore(self, filePath, first) ==
  LET extracted == ExtractBuffer(filePath)
  IN  IF ~extracted.ok THEN extracted
      ELSE DetectorScore(self.detector, extracted.v, first)

\* The record the try block of analyze returns for a score.  processingTime,
\* a wall-clock reading, is left out of the records.
ResultRecord(self, filePath, rawScore) ==
  LET base == [file |-> filePath, fileName |-> Basename(filePath),
               threshold |-> self.threshold, algorithm |-> self.algorithm]
  IN  IF self.algorithm = "patch-based"
      THEN base @@ [blurScore |-> Round2(ReportedStrategyScore(rawScore, self.strategy)),
                    isBlurry |-> PatchIsBlurry(rawScore, self.threshold, self.strategy),
                    scores |-> PatchResultScores(rawScore)]
      ELSE IF self.algorithm = "composite"
      THEN base @@ [blurScore |-> Round2(rawScore.composite),
                    isBlurry |-> CompositeIsBlurry(rawScore, self.threshold),
                    scores |-> CompositeResultScores(rawScore)]
      ELSE IF self.detector.kind = "composite"
      THEN base @@ [blurScore |-> NaN,
                    isBlurry |-> CompositeIsBlurry(rawScore, self.threshold)]
      ELSE base @@ [blurScore |-> Round2(rawScore),
                    isBlurry |-> SingleIsBlurry(self.detector.kind, rawScore, self.threshold)]

\* A catch block that reports a verdict with the error.
ErrorRecordWithVerdict(filePath, msg) ==
  [file |-> filePath, fileName |-> Basename(filePath), error |-> msg, isBlurry |-> FALSE]

\* The record the catch block of analyze returns.
ErrorRecord(filePath, msg) ==
  [file |-> filePath, fileName |-> Basename(filePath), error |-> msg]

\* analyze without its catch block: the exception of the scoring leaves it.
AnalyzeScoredUncaught(self, filePath, score) ==
  IF score.ok
  THEN Return(ResultRecord(self, filePath, score.v))
  ELSE score

\* The catch block of analyze around the rest of the try block: `score` is
\* the outcome of the scoring.
AnalyzeScored(self, filePath, score) ==
  IF score.ok
  THEN Return(ResultRecord(self, filePath, score.v))
  ELSE Return(ErrorRecord(filePath, score.msg))

\* BlurDetector.analyze(filePath)
Analyze(self, filePath, first) ==
  AnalyzeScored(self, filePath, TryScore(self, filePath, first))

(***************************************************************************)
(* Calibration                                                             *)
(***************************************************************************)
\* percentile with the rank taken over the length in place of length - 1.
CalibrationPercentileOverLength(sortedArray, p) ==
  IF Len(sortedArray) = 0 THEN Num(0)
  ELSE LET index == Mul(Fin(p, 100), Num(Len(sortedArray)))
           lower == Floor(index)
           upper == Ceil(index)
           weight == Sub(index, Num(lower))
       IN  IF upper >= Len(sortedArray) THEN sortedArray[Len(sortedArray)]
           ELSE Add(Mul(sortedArray[lower + 1], Sub(Num(1), weight)),
                    Mul(sortedArray[upper + 1], weight))

\* percentile without the guard for an empty array: sorted[-1] is undefined.
CalibrationPercentileUnguarded(sortedArray, p) ==
  IF Len(sortedArray) = 0 THEN Undefined
  ELSE LET index == Mul(Fin(p, 100), Num(Len(sortedArray) - 1))
           lower == Floor(index)
           upper == Ceil(index)
           weight == Sub(index, Num(lower))
       IN  IF upper >= Len(sortedArray) THEN sortedArray[Len(sortedArray)]
           ELSE Add(Mul(sortedArray[lower + 1], Sub(Num(1), weight)),
                    Mul(sortedArray[upper + 1], weight))

\* Calibration.percentile(sortedArray, p)
CalibrationPercentile(sortedArray, p) ==
  IF Len(sortedArray) = 0 THEN Num(0)
  ELSE LET index == Mul(Fin(p, 100), Num(Len(sortedArray) - 1))
           lower == Floor(index)
           upper == Ceil(index)
           weight == Sub(index, Num(lower))
       IN  IF upper >= Len(sortedArray) THEN sortedArray[Len(sortedArray)]
           ELSE Add(Mul(sortedArray[lower + 1], Sub(Num(1), weight)),
                    Mul(sortedArray[upper + 1], weight))

\* A property read: undefined when the object has no such property.
Field(obj, name) == IF name \in DOMAIN obj THEN obj[name] ELSE Undefined

\* results.filter(r => !r.error && r.scores)
ValidResults(results) ==
  SelectSeq(results, LAMBDA r : "error" \notin DOMAIN r /\ "scores" \in DOMAIN r)

RECURSIVE Flatten(_)
Flatten(ss) == IF ss = <<>> THEN <<>> ELSE Head(ss) \o Flatten(Tail(ss))

\* Patch mode collecting one aggregate per image, its largest patch score, in
\* place of every patch.
CollectScoresPerImage(validResults, patchMode, alg) ==
  IF patchMode
  THEN Flatten([i \in 1..Len(validResults) |->
                  IF "patchScores" \in DOMAIN validResults[i].scores
                     /\ validResults[i].scores.patchScores # <<>>
                  THEN <<MaxSeq([j \in 1..Len(validResults[i].scores.patchScores) |->
                                   validResults[i].scores.patchScores[j][alg]])>>
                  ELSE <<>>])
  ELSE [i \in 1..Len(validResults) |-> Field(validResults[i].scores, alg)]

\* The scores of one algorithm computeStats collects, before sorting: in
\* patch mode those of every patch of every valid result that has
\* patchScores, otherwise one per valid result.
CollectScores(validResults, patchMode, alg) ==
  IF patchMode
  THEN Flatten([i \in 1..Len(validResults) |->
                  IF "patchScores" \in DOMAIN validResults[i].scores
                  THEN [j \in 1..Len(validResults[i].scores.patchScores) |->
                          validResults[i].scores.patchScores[j][alg]]
                  ELSE <<>>])
  ELSE [i \in 1..Len(validResults) |-> Field(validResults[i].scores, alg)]

\* The statistics of one algorithm; arr[0] of an empty array is undefined.
AlgorithmStats(sorted) ==
  [p5 |-> CalibrationPercentile(sorted, 5),
   p95 |-> CalibrationPercentile(sorted, 95),
   median |-> CalibrationPercentile(sorted, 50),
   min |-> IF Len(sorted) = 0 THEN Undefined ELSE sorted[1],
   max |-> IF Len(sorted) = 0 THEN Undefined ELSE sorted[Len(sorted)]]

\* Calibration.computeStats(results, patchMode)
computeStats(results, patchMode) ==
  LET validResults == ValidResults(results)
      Scores(alg) == SortAscending(CollectScores(validResults, patchMode, alg))
  IN  IF Len(validResults) = 0
      THEN Throw(<<"No valid results to compute statistics from">>)
      ELSE Return([laplacian |-> AlgorithmStats(Scores("laplacian")),
                   gradient |-> AlgorithmStats(Scores("gradient")),
                   tenengrad |-> AlgorithmStats(Scores("tenengrad")),
                   variance |-> AlgorithmStats(Scores("variance")),
                   sampleSize |-> Len(validResults),
                   patchMode |-> patchMode,
                   totalSamples |-> Len(Scores("laplacian")),
                   version |-> "1.0.0"])

\* JSON.stringify of a number: NaN and the infinities are written as null.
JsonNull == [t |-> "null", n |-> 0, d |-> 1]
JsonNumber(x) == IF IsFin(x) THEN x ELSE JsonNull

\* JSON.stringify of an object of numbers: a property whose value is
\* undefined is left out.
JsonObject(obj) ==
  [f \in {g \in DOMAIN obj : obj[g] # Undefined} |-> JsonNumber(obj[f])]

\* JSON.stringify(stats, null, 2).  The text is represented by the JSON value
\* it denotes; a finite number is written with the digits that read back as
\* the same number.
JsonStringify(stats) ==
  [json |-> [k \in DOMAIN stats |->
               IF k \in KernelSet THEN JsonObject(stats[k]) ELSE stats[k]]]

\* JSON.parse(content)
JsonParse(content) == content.json

\* The text is JSON: JSON.parse does not throw.
Parseable(content) == "json" \in DOMAIN content

\* A path without a file, and the file writeFile leaves.
NoFile == [exists |-> FALSE]
WrittenFile(content) == [exists |-> TRUE, content |-> content]

\* Calibration.saveStats(filePath, stats): the record it writes and returns.
saveStats(self, stats) ==
  LET statsToSave == IF HasStats(stats) THEN stats ELSE self.stats
  IN  IF ~HasStats(statsToSave)
      THEN Throw(<<"No statistics to save. Run computeStats first.">>)
      ELSE Return(statsToSave)

\* Calibration.loadStats(filePath) on the file at the path.
loadStats(file) ==
  IF ~file.exists
  THEN Throw(<<"Failed to load calibration stats", "ENOENT: no such file or directory">>)
  ELSE IF ~Parseable(file.content)
  THEN Throw(<<"Failed to load calibration stats", "Unexpected end of JSON input">>)
  ELSE Return(JsonParse(file.content))

\* Calibration.getStats(filePath = null): `given` tells whether a path is
\* passed, `file` is the file at it.
getStats(self, file, given) ==
  IF HasStats(self.stats)
  THEN Return(self.stats)
  ELSE IF given
  THEN loadStats(file)
  ELSE Throw(<<"No statistics available. Run calibration first.">>)

(***************************************************************************)
(* State.                                                                  *)
(***************************************************************************)
VARIABLES
  detectorOptions,  \* the options the BlurDetector was constructed with
  blurDetector,     \* the BlurDetector object
  files,        \* the list FileScanner.scan returned
  analyzed,         \* the results the batch loop has pushed, in order
  pc,           \* the batch loop: "running", "done", or "aborted" by an exception
  sets,         \* the number of setThreshold calls made
  lastScore,        \* the outcome of the scoring in the latest analyze call
  calibration,  \* the Calibration object
  corpus,       \* the results handed to computeStats
  perPatch,     \* the patchMode flag handed to computeStats
  outcome,      \* the outcome of the latest computeStats call
  scored,       \* the outcome of the latest scoring with the calibration held
  cli,          \* the options blurry-filter was started with
  statsFile,    \* the calibration file on disk
  loaded,       \* the outcome of loadStats by a fresh Calibration object
  patchAnalyzer,    \* a PatchBasedDetector used on its own
  patchInput,       \* the image handed to it
  patchGrid,        \* the outcome of its divideIntoPatches call
  patchOutcome,     \* the outcome of its calculateBlurScore call
  ranked,           \* the outcome of a percentile call on the patch composites
  grayscale,        \* the grayscale pixels sharp decodes from a buffer
  measured,         \* the outcome of each kernel's calculateBlurScore on it
  joinDetector,     \* a CompositeDetector used on its own
  joinBuffer,       \* the image buffer handed to its calculateBlurScore
  settled,          \* the kernel promises settled so far, with their outcomes
  joined,           \* the outcome of calculateBlurScore once Promise.all settled
  opsCall,          \* the arguments of a processBlurryFiles call and the disk at the call
  disk,             \* the directories and files on disk
  fileOps,          \* the locals of the processBlurryFiles call and its outcome
  holder,           \* a Calibration object used through a series of calls
  holderFile,       \* the file at the path its calls are given
  calls,            \* the calls made on it, with the record held at each and its outcome
  shared,           \* a BlurDetector with several analyze calls in flight
  flights,          \* the analyze calls on it: file, position and locals
  flightSets,       \* the number of setThreshold calls made on it
  scanCall,         \* the arguments of a FileScanner.scan call and the files on disk
  scanned           \* the position of the scan call and its outcome

vars == <<detectorOptions, blurDetector, files, analyzed, pc, sets, lastScore,
          calibration, corpus, perPatch, outcome, scored, cli, statsFile, loaded,
          patchAnalyzer, patchInput, patchGrid, patchOutcome, ranked,
          grayscale, measured, joinDetector, joinBuffer, settled, joined,
          opsCall, disk, fileOps, holder, holderFile, calls,
          shared, flights, flightSets, scanCall, scanned>>

patchVars == <<patchAnalyzer, patchInput, patchGrid, patchOutcome, ranked>>

kernelVars == <<grayscale, measured>>

joinVars == <<joinDetector, joinBuffer, settled, joined>>

opsVars == <<opsCall, disk, fileOps>>

holdVars == <<holder, holderFile, calls>>

flightVars == <<shared, flights, flightSets>>

scanVars == <<scanCall, scanned>>

\* The variables of the units exercised on their own.
unitVars == <<kernelVars, joinVars, opsVars, holdVars, flightVars, scanVars>>

outsideKernel == <<joinVars, opsVars, holdVars, flightVars, scanVars>>

outsideJoin == <<kernelVars, opsVars, holdVars, flightVars, scanVars>>

outsideOps == <<kernelVars, joinVars, holdVars, flightVars, scanVars>>

outsideHold == <<kernelVars, joinVars, opsVars, flightVars, scanVars>>

outsideFlight == <<kernelVars, joinVars, opsVars, holdVars, scanVars>>

outsideScan == <<kernelVars, joinVars, opsVars, holdVars, flightVars>>

cliVars == <<cli, statsFile, loaded>>

calibrationVars == <<calibration, corpus, perPatch, outcome, scored>>

\* No call made yet.
NotCalled == [called |-> FALSE]
Called(x) == "ok" \in DOMAIN x

(***************************************************************************)
(* The inputs of the model.                                                *)
(***************************************************************************)
\* All ascending index sequences of at most n of the files: the lists a scan
\* can return, which are sorted and free of duplicates.
ScanLists(n) ==
  LET Sorted(S) == SortAscending([i \in 1..Cardinality(S) |->
                      Num(CHOOSE x \in S : Cardinality({y \in S : y < x}) = i - 1)])
  IN  {[i \in 1..Cardinality(S) |-> FilePath(Sorted(S)[i].n)] :
         S \in {T \in SUBSET (1..Len(FileNames)) : Cardinality(T) <= n}}

\* The kernels whose rejection can be the first to reach Promise.all.
FirstRejections(filePath) ==
  LET image == FileSystem[filePath.name]
  IN  IF image.fails = {} THEN {"laplacian"} ELSE image.fails

\* The first failing kernel in the order of the Promise.all array.
FirstInOrder(filePath) ==
  Kernels[CHOOSE m \in 1..Len(Kernels) :
            /\ Kernels[m] \in FirstRejections(filePath)
            /\ \A j \in 1..(m - 1) : Kernels[j] \notin FirstRejections(filePath)]

\* results.push(result), reached only when analyze returns.
Pushed(list, call) == IF call.ok THEN Append(list, call.v) ELSE list

\* analyze of every file of a list in turn.
RECURSIVE AnalyzeAll(_, _)
AnalyzeAll(self, list) ==
  IF list = <<>> THEN <<>>
  ELSE Pushed(AnalyzeAll(self, SubSeq(list, 1, Len(list) - 1)),
              Analyze(self, list[Len(list)], FirstInOrder(list[Len(list)])))

\* A calibration record as blurry-calibrate writes it for the files of the
\* model in full-image mode.
SampleStats ==
  computeStats(AnalyzeAll(BlurDetector(Options(Undefined, "composite", NoStats,
                                               Omitted, Undefined)),
                          [i \in 1..Len(FileNames) |-> FilePath(i)]),
               FALSE).v

\* A calibration record as blurry-calibrate --patch-mode writes it for the
\* files of the model.
SamplePatchStats ==
  computeStats(AnalyzeAll(BlurDetector(Options(Undefined, "patch-based", NoStats,
                                               Omitted, Num(2))),
                          [i \in 1..Len(FileNames) |-> FilePath(i)]),
               TRUE).v

Thresholds == {Undefined, Num(0), Num(30)}
NewThresholds == {Num(0), Num(50)}
Algorithms == {Omitted, "composite", "patch-based", "laplacian", "gradient",
               "tenengrad", "variance"}
CalibrationChoices == {NoStats, SampleStats}
PatchSizes == {Num(2)}

\* The algorithm, strategy and patch size of an options object: a strategy and
\* a patch size are given with patch-based only, where they are read.
AlgorithmChoices ==
  {<<a, Omitted, Undefined>> : a \in Algorithms \ {"patch-based"}}
  \cup {<<"patch-based", s, n>> : s \in Strategies \cup {Omitted}, n \in PatchSizes}

OptionSet ==
  {Options(t, a[1], c, a[2], a[3]) :
     t \in Thresholds, c \in CalibrationChoices, a \in AlgorithmChoices}

\* The options blurry-calibrate constructs its detector with: composite in
\* full-image mode, patch-based with --patch-size in patch mode; never a
\* calibration record.
CorpusOptions ==
  {Options(Undefined, "composite", NoStats, Omitted, Undefined)}
  \cup {Options(Undefined, "patch-based", NoStats, Omitted, n) : n \in {Num(2), Num(-1)}}

\* The command lines of blurry-filter: --use-calibration or not, --algorithm
\* (one name the constructor's switch does not know), --threshold, and with
\* patch-based a --strategy (one name unknown) and a --patch-size.
CliAlgorithms == {"composite", "patch-based", "laplacian", "sobel"}
CliStrategies == {"max-focus", "peak-focus", "sharpest"}
CliPatchSizes == {"2", "-1"}

CliOptions(useCalibration, algorithm, threshold, strategy, patchSize) ==
  [useCalibration |-> useCalibration, algorithm |-> algorithm,
   threshold |-> threshold, strategy |-> strategy, patchSize |-> patchSize]

CliOptionSet ==
  {CliOptions(u, a, t, "max-focus", "2") :
     u \in BOOLEAN, a \in CliAlgorithms \ {"patch-based"}, t \in {Undefined, Num(30)}}
  \cup {CliOptions(u, "patch-based", t, g, n) :
          u \in BOOLEAN, t \in {Undefined, Num(30)}, g \in CliStrategies,
          n \in CliPatchSizes}

\* The calibration files blurry-calibrate leaves: none, the one of a
\* full-image calibration and the one of a patch-mode calibration.
StatsFiles ==
  {NoFile, WrittenFile(JsonStringify(SampleStats)),
   WrittenFile(JsonStringify(SamplePatchStats))}

\* parseInt(text, 10) of the --patch-size values.
ParseInt(text) == IF text = "-1" THEN Num(-1) ELSE Num(2)

\* The calibration loading of blurry-filter: the record is loaded for the
\* composite algorithm only; a missing file ends the process.
CliCalibrationStats(opts, file) ==
  IF opts.useCalibration /\ opts.algorithm = "composite"
  THEN IF file.exists THEN loadStats(file)
       ELSE Throw(<<"Calibration file not found">>)
  ELSE Return(NoStats)

\* The options blurry-filter constructs its BlurDetector with.
CliDetectorOptions(opts, calibrationStats) ==
  Options(opts.threshold, opts.algorithm, calibrationStats, opts.strategy,
          ParseInt(opts.patchSize))

CliConstructed ==
  {CliDetectorOptions(o, CliCalibrationStats(o, f).v) :
     o \in CliOptionSet,
     f \in {g \in StatsFiles : g.exists}}

\* The scoring of analyze reads this.detector, the file and the order of the
\* rejections only.  The table holds TryScore for every detector object, file
\* and first rejection of the model, so that it is computed once for each.
ScoredDetectors ==
  {BlurDetector(o).detector : o \in OptionSet \cup CorpusOptions \cup CliConstructed}

ScoreTable ==
  UNION {{<<d, FilePath(i), k, TryScore([detector |-> d], FilePath(i), k)>> :
            d \in ScoredDetectors, k \in FirstRejections(FilePath(i))} :
         i \in 1..Len(FileNames)}

ScoreOf(self, filePath, first) ==
  (CHOOSE e \in ScoreTable :
     e[1] = self.detector /\ e[2] = filePath /\ e[3] = first)[4]

\* The results blurry-calibrate collects: analyze of every file of the list in
\* turn.
RECURSIVE CollectResults(_, _)
CollectResults(self, list) ==
  IF list = <<>> THEN <<>>
  ELSE Pushed(CollectResults(self, SubSeq(list, 1, Len(list) - 1)),
              AnalyzeScored(self, list[Len(list)],
                            ScoreOf(self, list[Len(list)],
                                    FirstInOrder(list[Len(list)]))))

(***************************************************************************)
(* A batch run: a BlurDetector is constructed, the scanned files are       *)
(* analyzed one after the other (analyzeDirectory, and the processing      *)
(* loops of blurry-filter and blurry-calibrate), and the threshold may be  *)
(* set between two analyses.                                               *)
(***************************************************************************)
CalibrationIdle ==
  /\ calibration = [stats |-> NoStats]
  /\ corpus = <<>>
  /\ perPatch = FALSE
  /\ outcome = NotCalled
  /\ scored = NotCalled

\* blurry-filter is not involved.
CliIdle ==
  /\ cli = NotCalled
  /\ statsFile = NoFile
  /\ loaded = NotCalled

\* No PatchBasedDetector is used on its own.
PatchIdle ==
  /\ patchAnalyzer = NotCalled
  /\ patchInput = NotCalled
  /\ patchGrid = NotCalled
  /\ patchOutcome = NotCalled
  /\ ranked = NotCalled

\* No kernel is run on its own.
KernelsIdle ==
  /\ grayscale = NotCalled
  /\ measured = NotCalled

JoinIdle ==
  /\ joinDetector = NotCalled
  /\ joinBuffer = NotCalled
  /\ settled = NotCalled
  /\ joined = NotCalled

OpsIdle ==
  /\ opsCall = NotCalled
  /\ disk = NotCalled
  /\ fileOps = NotCalled

HoldIdle ==
  /\ holder = NotCalled
  /\ holderFile = NotCalled
  /\ calls = NotCalled

FlightIdle ==
  /\ shared = NotCalled
  /\ flights = NotCalled
  /\ flightSets = 0

ScanIdle ==
  /\ scanCall = NotCalled
  /\ scanned = NotCalled

UnitsIdle == KernelsIdle /\ JoinIdle /\ OpsIdle /\ HoldIdle /\ FlightIdle /\ ScanIdle

Init ==
  /\ detectorOptions \in OptionSet
  /\ blurDetector = BlurDetector(detectorOptions)
  /\ files \in ScanLists(MaxFiles)
  /\ analyzed = <<>>
  /\ pc = "running"
  /\ sets = 0
  /\ lastScore = NotCalled
  /\ CalibrationIdle
  /\ CliIdle
  /\ PatchIdle
  /\ UnitsIdle

\* results.push(result) for the outcome of an analyze call whose scoring ended
\* as `score`.  An exception leaving analyze would leave the loop.
PushResult(score, call) ==
  /\ lastScore' = score
  /\ analyzed' = Pushed(analyzed, call)
  /\ pc' = IF call.ok THEN "running" ELSE "aborted"

AnalyzeFile(self, filePath, score) ==
  PushResult(score, AnalyzeScored(self, filePath, score))

\* One turn of the loop: const result = await detector.analyze(file);
\* results.push(result).
AnalyzeNext ==
  /\ pc = "running"
  /\ Len(analyzed) < Len(files)
  /\ \E first \in FirstRejections(files[Len(analyzed) + 1]) :
       AnalyzeFile(blurDetector, files[Len(analyzed) + 1],
                   ScoreOf(blurDetector, files[Len(analyzed) + 1], first))
  /\ UNCHANGED <<detectorOptions, blurDetector, files, sets>>
  /\ UNCHANGED calibrationVars
  /\ UNCHANGED cliVars
  /\ UNCHANGED patchVars
  /\ UNCHANGED unitVars

Finish ==
  /\ pc = "running"
  /\ Len(analyzed) = Len(files)
  /\ pc' = "done"
  /\ UNCHANGED <<detectorOptions, blurDetector, files, analyzed, sets, lastScore>>
  /\ UNCHANGED calibrationVars
  /\ UNCHANGED cliVars
  /\ UNCHANGED patchVars
  /\ UNCHANGED unitVars

\* BlurDetector.setThreshold(threshold)
SetThreshold ==
  /\ pc = "running"
  /\ sets < MaxSets
  /\ \E t \in NewThresholds : blurDetector' = [blurDetector EXCEPT !.threshold = t]
  /\ sets' = sets + 1
  /\ UNCHANGED <<detectorOptions, files, analyzed, pc, lastScore>>
  /\ UNCHANGED calibrationVars
  /\ UNCHANGED cliVars
  /\ UNCHANGED patchVars
  /\ UNCHANGED unitVars

Next == AnalyzeNext \/ Finish \/ SetThreshold

Spec == Init /\ [][Next]_vars

(***************************************************************************)
(* A calibration: computeStats is handed the results of a batch analyzed   *)
(* without calibration, and a composite detector constructed with the      *)
(* record the Calibration object holds scores buffers.                     *)
(***************************************************************************)
DetectorIdle ==
  /\ detectorOptions = Options(Undefined, Omitted, NoStats, Omitted, Undefined)
  /\ blurDetector = BlurDetector(detectorOptions)
  /\ files = <<>>
  /\ analyzed = <<>>
  /\ pc = "done"
  /\ sets = 0
  /\ lastScore = NotCalled

detectorVars == <<detectorOptions, blurDetector, files, analyzed, pc, sets, lastScore>>

\* The corpora: the results of a detector blurry-calibrate constructs for the
\* files of a scan.
Corpora ==
  {CollectResults(BlurDetector(o), list) : o \in CorpusOptions, list \in ScanLists(MaxCorpus)}

\* Kernel outputs of the buffers scored with the calibration held: they
\* include the outputs the corpus images have.
RawInputs ==
  {Raw(Num(l), Num(g), Num(t), Num(v)) :
     l \in {0, 50, 60}, g \in {0, 45}, t \in {0, 100000, 1000000000}, v \in {0, 2000}}

InitCal ==
  /\ DetectorIdle
  /\ CliIdle
  /\ PatchIdle
  /\ UnitsIdle
  /\ corpus \in Corpora
  /\ perPatch \in BOOLEAN
  /\ calibration = [stats |-> NoStats]
  /\ outcome = NotCalled
  /\ scored = NotCalled

\* An assignment that drops the record held when the call throws.
StatsAfterCleared(held, call) == IF call.ok THEN [stats |-> call.v] ELSE [stats |-> NoStats]

\* this.stats = stats, reached only when computeStats returns.
StatsAfter(held, call) == IF call.ok THEN [stats |-> call.v] ELSE held

Computed(call) ==
  /\ outcome' = call
  /\ calibration' = StatsAfter(calibration, call)

\* calibration.computeStats(results, patchMode)
ComputeStats ==
  /\ outcome = NotCalled
  /\ Computed(computeStats(corpus, perPatch))
  /\ UNCHANGED <<corpus, perPatch, scored>>
  /\ UNCHANGED detectorVars
  /\ UNCHANGED cliVars
  /\ UNCHANGED patchVars
  /\ UNCHANGED unitVars

\* new CompositeDetector({calibrationStats}).calculateBlurScore(buffer) with
\* the record held, hand-tuned when none is; one buffer is scored in a run.
ScoreBuffer ==
  /\ scored = NotCalled
  /\ \E raw \in RawInputs :
       scored' = CompositeScore(CompositeDetector(calibration.stats),
                                [fails |-> {}, raw |-> raw], "laplacian")
  /\ UNCHANGED <<calibration, corpus, perPatch, outcome>>
  /\ UNCHANGED detectorVars
  /\ UNCHANGED cliVars
  /\ UNCHANGED patchVars
  /\ UNCHANGED unitVars

\* blurry-calibrate after computeStats returned:
\* await calibration.saveStats(outputPath, stats)
SaveStats ==
  /\ Called(outcome)
  /\ outcome.ok
  /\ statsFile = NoFile
  /\ statsFile' = WrittenFile(JsonStringify(saveStats(calibration, outcome.v).v))
  /\ UNCHANGED <<cli, loaded>>
  /\ UNCHANGED calibrationVars
  /\ UNCHANGED detectorVars
  /\ UNCHANGED patchVars
  /\ UNCHANGED unitVars

\* new Calibration().loadStats(path) on the file at the output path, as
\* blurry-filter --use-calibration does.
LoadStats ==
  /\ loaded = NotCalled
  /\ loaded' = loadStats(statsFile)
  /\ UNCHANGED <<cli, statsFile>>
  /\ UNCHANGED calibrationVars
  /\ UNCHANGED detectorVars
  /\ UNCHANGED patchVars
  /\ UNCHANGED unitVars

NextCal == ComputeStats \/ ScoreBuffer \/ SaveStats \/ LoadStats

SpecCal == InitCal /\ [][NextCal]_vars

(***************************************************************************)
(* A run of blurry-filter: the calibration is loaded, the directory is     *)
(* scanned, the BlurDetector is constructed and the files are analyzed     *)
(* one after the other.                                                    *)
(***************************************************************************)
NoDetector == [constructed |-> FALSE]

InitCli ==
  /\ cli \in CliOptionSet
  /\ statsFile \in StatsFiles
  /\ loaded = NotCalled
  /\ files \in ScanLists(MaxFiles)
  /\ detectorOptions = NoDetector
  /\ blurDetector = NoDetector
  /\ analyzed = <<>>
  /\ pc = "start"
  /\ sets = 0
  /\ lastScore = NotCalled
  /\ CalibrationIdle
  /\ PatchIdle
  /\ UnitsIdle

\* process.exit: nothing is constructed.
CliExit(stats) ==
  /\ loaded' = stats
  /\ pc' = "exited"
  /\ UNCHANGED <<detectorOptions, blurDetector>>

\* new BlurDetector({...}) with the record the loading left.
CliConstruct(stats, constructorOptions) ==
  /\ loaded' = stats
  /\ detectorOptions' = constructorOptions
  /\ blurDetector' = BlurDetector(constructorOptions)
  /\ pc' = "running"

CliBegin(stats) ==
  IF ~stats.ok \/ files = <<>>
  THEN CliExit(stats)
  ELSE CliConstruct(stats, CliDetectorOptions(cli, stats.v))

\* The action of blurry-filter up to its processing loop.
CliStart ==
  /\ pc = "start"
  /\ CliBegin(CliCalibrationStats(cli, statsFile))
  /\ UNCHANGED <<cli, statsFile, files, analyzed, sets, lastScore>>
  /\ UNCHANGED calibrationVars
  /\ UNCHANGED patchVars
  /\ UNCHANGED unitVars

NextCli == CliStart \/ AnalyzeNext \/ Finish

SpecCli == InitCli /\ [][NextCli]_vars

(***************************************************************************)
(* A PatchBasedDetector used on its own: an image is divided into the      *)
(* patches of the grid, and calculateBlurScore scores it.                  *)
(***************************************************************************)
\* The grid sizes: the constructor keeps any truthy patchSize.
GridSizes == {-1, 1, 2, 3, 5}

\* A calibration record as blurry-calibrate --patch-mode writes it for a
\* corpus of one flat image.
FlatPatchStats ==
  computeStats(AnalyzeAll(BlurDetector(Options(Undefined, "patch-based", NoStats,
                                               Omitted, Num(2))),
                          <<FilePath(1)>>),
               TRUE).v

\* The same for a corpus of one image with sharp patches.
SharpPatchStats ==
  computeStats(AnalyzeAll(BlurDetector(Options(Undefined, "patch-based", NoStats,
                                               Omitted, Num(2))),
                          <<FilePath(5)>>),
               TRUE).v

PatchAnalyzers ==
  {PatchBasedDetector(NoStats, n) : n \in GridSizes}
  \cup {PatchBasedDetector(FlatPatchStats, 2), PatchBasedDetector(SharpPatchStats, 2)}

\* A decodable image of the given size whose patches show the kernel outputs
\* of the pattern, in row-major order.
PatchImage(width, height, patchFails, pattern) ==
  [Image(TRUE, TRUE, {}, patchFails, 1, pattern) EXCEPT !.width = width, !.height = height]

\* Images whose sides the grid sizes divide and images where a remainder is
\* left, one smaller than a grid, one flat, and one whose patches a kernel
\* rejects.  No three patches of a grid show the largest Tenengrad output.
PatchImages ==
  {PatchImage(64, 48, {}, <<1>>),
   PatchImage(60, 30, {}, <<3, 2, 1, 4, 2, 3, 1, 2, 3, 3, 1, 2, 4, 2, 1,
                            1, 1, 2, 3, 2, 1, 2, 3, 3, 1>>),
   PatchImage(65, 49, {}, <<4, 3, 1, 3, 1, 3, 1, 1, 3, 3, 1, 1, 3, 1, 1,
                            1, 1, 3, 3, 1, 1, 3, 3, 3, 1>>),
   PatchImage(64, 50, {}, <<3, 1>>),
   PatchImage(62, 50, {}, <<4, 1, 1, 1, 1, 1, 1, 1, 1, 1, 1, 1, 1, 1, 1,
                            1, 1, 1, 1, 1, 1, 1, 1, 1, 1>>),
   PatchImage(67, 50, {}, <<1, 2, 3, 2, 3, 1, 2, 1, 3, 4, 1, 2, 3, 2, 1,
                            3, 1, 2, 3, 2, 1, 2, 3, 4, 1>>),
   PatchImage(2, 1, {}, <<2, 3>>),
   PatchImage(64, 48, {"gradient"}, <<2, 1>>)}

\* The analyzer calibrated on sharp patches scores the images of at most two
\* kernel outputs.
PatchCases ==
  {c \in PatchAnalyzers \X PatchImages :
     c[1].calibrationStats = SharpPatchStats
       => Cardinality({c[2].pattern[i] : i \in 1..Len(c[2].pattern)}) <= 2}

InitPatch ==
  /\ DetectorIdle
  /\ CalibrationIdle
  /\ CliIdle
  /\ \E c \in PatchCases : patchAnalyzer = c[1] /\ patchInput = c[2]
  /\ patchGrid = NotCalled
  /\ patchOutcome = NotCalled
  /\ ranked = NotCalled
  /\ UnitsIdle

\* detector.divideIntoPatches(imageBuffer, patchSize, patchSize)
DivideIntoPatches ==
  /\ patchGrid = NotCalled
  /\ patchGrid' = divideIntoPatches(patchInput, patchAnalyzer.patchSize,
                                    patchAnalyzer.patchSize)
  /\ UNCHANGED <<patchAnalyzer, patchInput, patchOutcome, ranked>>
  /\ UNCHANGED detectorVars
  /\ UNCHANGED calibrationVars
  /\ UNCHANGED cliVars
  /\ UNCHANGED unitVars

\* detector.calculateBlurScore(imageBuffer)
CalculateBlurScore ==
  /\ Called(patchGrid)
  /\ patchOutcome = NotCalled
  /\ \E first \in (IF patchInput.patchFails = {} THEN {"laplacian"}
                     ELSE patchInput.patchFails) :
       patchOutcome' = PatchBasedScore(patchAnalyzer, patchInput, first)
  /\ UNCHANGED <<patchAnalyzer, patchInput, patchGrid, ranked>>
  /\ UNCHANGED detectorVars
  /\ UNCHANGED calibrationVars
  /\ UNCHANGED cliVars
  /\ UNCHANGED unitVars

\* The percentile ranks asked for.
Ranks == {0, 50, 100}

\* compositeScores of calculateBlurScore: patchScores.map(p => p.composite)
PatchComposites(scores) ==
  [i \in 1..Len(scores.patchScores) |-> scores.patchScores[i].composite]

\* The results of the two percentile implementations for the same numbers:
\* Calibration.percentile is handed them sorted, as computeStats does, and
\* PatchBasedDetector.percentile as they are.
Percentiles(arr, p) ==
  [ok |-> TRUE, p |-> p,
   calibration |-> CalibrationPercentile(SortAscending(arr), p),
   patch |-> PatchPercentile(arr, p)]

\* calibration.percentile(sorted, p) and detector.percentile(arr, p) on the
\* composite scores of the patches scored.
Percentile ==
  /\ Called(patchOutcome)
  /\ patchOutcome.ok
  /\ \A i \in 1..Len(patchOutcome.v.patchScores) :
       IsFin(patchOutcome.v.patchScores[i].composite)
  /\ ranked = NotCalled
  /\ \E p \in Ranks : ranked' = Percentiles(PatchComposites(patchOutcome.v), p)
  /\ UNCHANGED <<patchAnalyzer, patchInput, patchGrid, patchOutcome>>
  /\ UNCHANGED detectorVars
  /\ UNCHANGED calibrationVars
  /\ UNCHANGED cliVars
  /\ UNCHANGED unitVars

NextPatch == DivideIntoPatches \/ CalculateBlurScore \/ Percentile

SpecPatch == InitPatch /\ [][NextPatch]_vars

(***************************************************************************)
(* The four kernels on their own: each detector's calculateBlurScore is    *)
(* called once on the same buffer.                                         *)
(***************************************************************************)
\* The variables of the runs of the whole program.
programVars == <<detectorVars, calibrationVars, cliVars, patchVars>>

ProgramIdle == DetectorIdle /\ CalibrationIdle /\ CliIdle /\ PatchIdle

\* All sequences of n bytes drawn from the levels.
PixelData(levels, n) == [1..n -> levels]

Decoded(width, height, data) ==
  [decodable |-> TRUE, width |-> width, height |-> height, data |-> data]

\* The sizes and gray levels of the buffers of constant intensity.
ConstantSizes == {<<1, 1>>, <<2, 2>>, <<3, 3>>, <<4, 3>>, <<5, 4>>}
ConstantLevels == {0, 1, 128, 255}

\* The gray levels of the buffers whose pixels differ.
DarkLevels == {0, 3}

\* The grayscale buffers: constant ones, every 3x3 and 4x3 buffer of two dark
\* levels, and a buffer sharp cannot decode.
GrayBuffers ==
  {Decoded(sz[1], sz[2], [i \in 1..(sz[1] * sz[2]) |-> c]) :
     sz \in ConstantSizes, c \in ConstantLevels}
  \cup {Decoded(3, 3, d) : d \in PixelData(DarkLevels, 9)}
  \cup {Decoded(4, 3, d) : d \in PixelData(DarkLevels, 12)}
  \cup {[decodable |-> FALSE]}

InitKernel ==
  /\ ProgramIdle
  /\ JoinIdle
  /\ OpsIdle
  /\ HoldIdle
  /\ FlightIdle
  /\ ScanIdle
  /\ grayscale \in GrayBuffers
  /\ measured = [k \in KernelSet |-> NotCalled]

\* The outcomes after the detector of kernel k returned or threw.
Measured(k) == [measured EXCEPT ![k] = KernelOnPixels(k, grayscale)]

\* new LaplacianDetector().calculateBlurScore(imageBuffer)
MeasureLaplacian ==
  /\ measured.laplacian = NotCalled
  /\ measured' = Measured("laplacian")
  /\ UNCHANGED grayscale
  /\ UNCHANGED programVars
  /\ UNCHANGED outsideKernel

\* new GradientDetector().calculateBlurScore(imageBuffer)
MeasureGradient ==
  /\ measured.gradient = NotCalled
  /\ measured' = Measured("gradient")
  /\ UNCHANGED grayscale
  /\ UNCHANGED programVars
  /\ UNCHANGED outsideKernel

\* new TenengradDetector().calculateBlurScore(imageBuffer)
MeasureTenengrad ==
  /\ measured.tenengrad = NotCalled
  /\ measured' = Measured("tenengrad")
  /\ UNCHANGED grayscale
  /\ UNCHANGED programVars
  /\ UNCHANGED outsideKernel

\* new VarianceDetector().calculateBlurScore(imageBuffer)
MeasureVariance ==
  /\ measured.variance = NotCalled
  /\ measured' = Measured("variance")
  /\ UNCHANGED grayscale
  /\ UNCHANGED programVars
  /\ UNCHANGED outsideKernel

NextKernel == MeasureLaplacian \/ MeasureGradient \/ MeasureTenengrad \/ MeasureVariance

SpecKernel == InitKernel /\ [][NextKernel]_vars

(***************************************************************************)
(* SpecJoin: CompositeDetector.calculateBlurScore with its four kernel     *)
(* computations in flight.  The four promises are created together and     *)
(* settle in any order; Promise.all rejects with the first rejection and   *)
(* fulfils, with the values in array order, when the last promise fulfils. *)
(***************************************************************************)
\* The continuation of calculateBlurScore that ignores rejected kernels and
\* reads their score as 0.
JoinOutcomeIgnoringRejections(det, outcomes, k) ==
  IF \A j \in KernelSet : Called(outcomes[j])
  THEN Return(CompositeScores([j \in KernelSet |-> IF outcomes[j].ok THEN outcomes[j].v ELSE Num(0)],
                              Normalize(det, [j \in KernelSet |-> IF outcomes[j].ok THEN outcomes[j].v ELSE Num(0)])))
  ELSE NotCalled

\* What the await of Promise.all and the code after it yield once kernel k
\* has settled, the join not having settled before: the catch clause on a
\* rejection, the composite record when all four have fulfilled, and nothing
\* while fulfilled promises are still awaited.
JoinOutcome(det, outcomes, k) ==
  IF ~outcomes[k].ok
  THEN Throw(<<"Failed to calculate composite score">> \o outcomes[k].msg)
  ELSE IF \A j \in KernelSet : Called(outcomes[j])
  THEN Return(CompositeScores([j \in KernelSet |-> outcomes[j].v],
                              Normalize(det, [j \in KernelSet |-> outcomes[j].v])))
  ELSE NotCalled

JoinDetectors == {CompositeDetector(NoStats), CompositeDetector(SampleStats)}

\* Image buffers: each raw palette entry, with every set of failing kernels.
JoinBuffers ==
  {[fails |-> f, raw |-> RawPalette[i]] : f \in SUBSET KernelSet, i \in 1..Len(RawPalette)}

InitJoin ==
  /\ ProgramIdle
  /\ KernelsIdle
  /\ OpsIdle
  /\ HoldIdle
  /\ FlightIdle
  /\ ScanIdle
  /\ joinDetector \in JoinDetectors
  /\ joinBuffer \in JoinBuffers
  /\ settled = [k \in KernelSet |-> NotCalled]
  /\ joined = NotCalled

\* The promises after the one of kernel k settled.
Settled(k) == [settled EXCEPT ![k] = KernelScore(k, joinBuffer)]

\* The join after the promise of kernel k settled.
Joined(k) ==
  IF Called(joined) THEN joined ELSE JoinOutcome(joinDetector, Settled(k), k)

\* this.laplacian.calculateBlurScore(imageBuffer) settles
SettleLaplacian ==
  /\ settled.laplacian = NotCalled
  /\ settled' = Settled("laplacian")
  /\ joined' = Joined("laplacian")
  /\ UNCHANGED <<joinDetector, joinBuffer>>
  /\ UNCHANGED programVars
  /\ UNCHANGED outsideJoin

\* this.gradient.calculateBlurScore(imageBuffer) settles
SettleGradient ==
  /\ settled.gradient = NotCalled
  /\ settled' = Settled("gradient")
  /\ joined' = Joined("gradient")
  /\ UNCHANGED <<joinDetector, joinBuffer>>
  /\ UNCHANGED programVars
  /\ UNCHANGED outsideJoin

\* this.tenengrad.calculateBlurScore(imageBuffer) settles
SettleTenengrad ==
  /\ settled.tenengrad = NotCalled
  /\ settled' = Settled("tenengrad")
  /\ joined' = Joined("tenengrad")
  /\ UNCHANGED <<joinDetector, joinBuffer>>
  /\ UNCHANGED programVars
  /\ UNCHANGED outsideJoin

\* this.variance.calculateBlurScore(imageBuffer) settles
SettleVariance ==
  /\ settled.variance = NotCalled
  /\ settled' = Settled("variance")
  /\ joined' = Joined("variance")
  /\ UNCHANGED <<joinDetector, joinBuffer>>
  /\ UNCHANGED programVars
  /\ UNCHANGED outsideJoin

NextJoin == SettleLaplacian \/ SettleGradient \/ SettleTenengrad \/ SettleVariance

SpecJoin == InitJoin /\ [][NextJoin]_vars

(***************************************************************************)
(* SpecOps: FileOperations.processBlurryFiles on a disk.  A disk is the    *)
(* set of its directories, the names taken by something that is not a      *)
(* directory, and its files with their content.  A file path is a record   *)
(* of directory, name and extension, the name a sequence of parts so that  *)
(* a suffix can be appended to it.                                         *)
(***************************************************************************)
Done(d, result) == [disk |-> d, result |-> result]

Succeeded(destPath) == [success |-> TRUE, destPath |-> destPath]

Failed(error) == [success |-> FALSE, error |-> error]

Exists(d, filePath) == filePath \in DOMAIN d.files

\* The device a directory is on.
Device(d, dir) == IF dir \in d.mounted THEN 2 ELSE 1

\* fs.copyFile(sourcePath, destPath): the destination is overwritten.
fsCopyFile(d, sourcePath, destPath) ==
  IF ~Exists(d, sourcePath) \/ destPath.dir \notin d.dirs
  THEN Throw("ENOENT")
  ELSE Return([d EXCEPT !.files =
                 [f \in DOMAIN d.files \cup {destPath} |->
                    IF f = destPath THEN d.files[sourcePath] ELSE d.files[f]]])

\* fs.rename(sourcePath, destPath): the destination is replaced.
fsRename(d, sourcePath, destPath) ==
  IF ~Exists(d, sourcePath) \/ destPath.dir \notin d.dirs
  THEN Throw("ENOENT")
  ELSE IF Device(d, sourcePath.dir) # Device(d, destPath.dir)
  THEN Throw("EXDEV")
  ELSE Return([d EXCEPT !.files =
                 [f \in (DOMAIN d.files \ {sourcePath}) \cup {destPath} |->
                    IF f = destPath THEN d.files[sourcePath] ELSE d.files[f]]])

\* fs.unlink(filePath)
fsUnlink(d, filePath) ==
  IF ~Exists(d, filePath)
  THEN Throw("ENOENT")
  ELSE Return([d EXCEPT !.files = [f \in DOMAIN d.files \ {filePath} |-> d.files[f]]])

\* fs.mkdir(dirPath, { recursive: true })
fsMkdir(d, dirPath) ==
  IF dirPath \in d.plain
  THEN Throw("EEXIST")
  ELSE Return([d EXCEPT !.dirs = d.dirs \cup {dirPath}])

\* FileOperations.copyFile
copyFile(d, sourcePath, destPath) ==
  IF fsCopyFile(d, sourcePath, destPath).ok
  THEN Done(fsCopyFile(d, sourcePath, destPath).v, Succeeded(destPath))
  ELSE Done(d, Failed(fsCopyFile(d, sourcePath, destPath).msg))

\* The fallback of moveFile: copy, then delete the source.
CopyThenUnlink(d, sourcePath, destPath) ==
  IF ~fsCopyFile(d, sourcePath, destPath).ok
  THEN Done(d, Failed(fsCopyFile(d, sourcePath, destPath).msg))
  ELSE IF ~fsUnlink(fsCopyFile(d, sourcePath, destPath).v, sourcePath).ok
  THEN Done(fsCopyFile(d, sourcePath, destPath).v,
            Failed(fsUnlink(fsCopyFile(d, sourcePath, destPath).v, sourcePath).msg))
  ELSE Done(fsUnlink(fsCopyFile(d, sourcePath, destPath).v, sourcePath).v, Succeeded(destPath))

\* FileOperations.moveFile
moveFile(d, sourcePath, destPath) ==
  IF fsRename(d, sourcePath, destPath).ok
  THEN Done(fsRename(d, sourcePath, destPath).v, Succeeded(destPath))
  ELSE CopyThenUnlink(d, sourcePath, destPath)

\* path.join(dir, `${basename}_${suffix}${ext}`)
SuffixedPath(sourcePath, suffix) ==
  Path(sourcePath.dir, sourcePath.name \o <<"_", suffix>>, sourcePath.ext)

\* FileOperations.renameFileWithSuffix
renameFileWithSuffix(d, sourcePath, suffix) ==
  IF fsRename(d, sourcePath, SuffixedPath(sourcePath, suffix)).ok
  THEN Done(fsRename(d, sourcePath, SuffixedPath(sourcePath, suffix)).v,
            Succeeded(SuffixedPath(sourcePath, suffix)))
  ELSE Done(d, Failed(fsRename(d, sourcePath, SuffixedPath(sourcePath, suffix)).msg))

\* FileOperations.ensureDirectory
ensureDirectory(d, dirPath) ==
  IF fsMkdir(d, dirPath).ok
  THEN Done(fsMkdir(d, dirPath).v, [success |-> TRUE, dirPath |-> dirPath])
  ELSE Done(d, Failed(fsMkdir(d, dirPath).msg))

\* results.filter(r => r.isBlurry && !r.error)
BlurryFiles(results) ==
  SelectSeq(results, LAMBDA r : "isBlurry" \in DOMAIN r /\ r.isBlurry /\ "error" \notin DOMAIN r)

\* The filter that keeps the blurry results that carry an error.
BlurryFilesWithErrors(results) ==
  SelectSeq(results, LAMBDA r : "isBlurry" \in DOMAIN r /\ r.isBlurry)

\* The guard that creates the output directory under dryRun as well.
CreatesDirectoryUnlessRename(call) == ~call.rename

\* The guard of the creation of the output directory: !dryRun && !rename
CreatesDirectory(call) == ~call.dryRun /\ ~call.rename

\* The destination and the action processBlurryFiles computes for a result.
DestPath(call, result) ==
  IF call.rename
  THEN SuffixedPath(result.file, call.suffix)
  ELSE Path(call.outputDir, result.file.name, result.file.ext)

Action(call) ==
  IF call.rename THEN "rename" ELSE IF call.move THEN "move" ELSE "copy"

\* The summary processBlurryFiles returns.
Summary(ops) ==
  [total |-> Len(ops.blurryFiles), successful |-> ops.successful, failed |-> ops.failed,
   skipped |-> ops.skipped, operations |-> ops.operations]

\* The end of an iteration: the next one, or the return after the last.
Iterated(ops) ==
  IF ops.i = Len(ops.blurryFiles)
  THEN [ops EXCEPT !.i = ops.i + 1, !.pc = "done", !.outcome = Return(Summary(ops))]
  ELSE [ops EXCEPT !.i = ops.i + 1]

\* An iteration under dryRun.
Simulated(ops, call, result) ==
  Iterated([ops EXCEPT
    !.operations = Append(ops.operations,
       [source |-> result.file, destination |-> DestPath(call, result),
        action |-> Action(call), status |-> "dry-run", blurScore |-> result.blurScore]),
    !.skipped = ops.skipped + 1])

\* An iteration after its file operation returned opResult.
Operated(ops, call, result, opResult) ==
  Iterated(
    IF opResult.success
    THEN [ops EXCEPT
      !.successful = ops.successful + 1,
      !.operations = Append(ops.operations,
         [source |-> result.file, destination |-> opResult.destPath,
          action |-> Action(call), status |-> "success", blurScore |-> result.blurScore])]
    ELSE [ops EXCEPT
      !.failed = ops.failed + 1,
      !.operations = Append(ops.operations,
         [source |-> result.file, destination |-> DestPath(call, result),
          action |-> Action(call), status |-> "failed", error |-> opResult.error,
          blurScore |-> result.blurScore])])

\* The RAW files results name: two share their file name in different
\* directories, as a recursive scan returns them.
OpsPaths ==
  << Path("photos", <<"a">>, ".nef"),
     Path("photos", <<"b">>, ".nef"),
     Path("photos/sub", <<"a">>, ".nef") >>

\* An analysis result of each kind: blurry, sharp, the record of a failed
\* analysis, and a blurry verdict that carries an error.
OpsResult(i, kind) ==
  CASE kind = "blurry" -> [file |-> OpsPaths[i], isBlurry |-> TRUE, blurScore |-> Num(10 + i)]
    [] kind = "sharp" -> [file |-> OpsPaths[i], isBlurry |-> FALSE, blurScore |-> Num(40 + i)]
    [] kind = "error" -> [file |-> OpsPaths[i], error |-> "Failed to extract preview"]
    [] kind = "blurry-error" ->
         [file |-> OpsPaths[i], isBlurry |-> TRUE, blurScore |-> Num(10 + i),
          error |-> "Failed to extract preview"]

ResultKinds == {"none", "blurry", "sharp", "error", "blurry-error"}

RECURSIVE OpsResults(_, _)
\* The results of paths i, i + 1, ... in order, those of kind "none" left out.
OpsResults(kinds, i) ==
  IF i > Len(kinds) THEN <<>>
  ELSE IF kinds[i] = "none" THEN OpsResults(kinds, i + 1)
  ELSE <<OpsResult(i, kinds[i])>> \o OpsResults(kinds, i + 1)

\* The disk at the call: the RAW files except those in `missing`, an output
\* directory "sorted" on another file system when `mounted`, and a plain
\* file "notes.txt".
DiskWith(missing, mounted) ==
  [dirs |-> {"photos", "photos/sub"} \cup (IF mounted THEN {"sorted"} ELSE {}),
   mounted |-> IF mounted THEN {"sorted"} ELSE {},
   plain |-> {"notes.txt"},
   files |-> [f \in {OpsPaths[i] : i \in 1..Len(OpsPaths)} \ missing |-> <<"content of", f>>]]

OutputDirs == {"sorted", "photos", "notes.txt"}

InitOps ==
  /\ ProgramIdle
  /\ KernelsIdle
  /\ JoinIdle
  /\ HoldIdle
  /\ FlightIdle
  /\ ScanIdle
  /\ \E kinds \in [1..Len(OpsPaths) -> ResultKinds], dir \in OutputDirs,
        move \in BOOLEAN, rename \in BOOLEAN, dryRun \in BOOLEAN,
        mounted \in BOOLEAN, missing \in {{}, {OpsPaths[2]}} :
       /\ disk = DiskWith(missing, mounted)
       /\ opsCall = [results |-> OpsResults(kinds, 1), outputDir |-> dir, move |-> move,
                     rename |-> rename, dryRun |-> dryRun, suffix |-> "blurry",
                     disk |-> DiskWith(missing, mounted)]
  /\ fileOps = [pc |-> "called", blurryFiles |-> <<>>, i |-> 1, operations |-> <<>>,
                successful |-> 0, failed |-> 0, skipped |-> 0, outcome |-> NotCalled]

\* The result of the current iteration.
Current == fileOps.blurryFiles[fileOps.i]

\* processBlurryFiles up to its loop: the filter, the early return and the
\* creation of the output directory.
StartProcessing ==
  /\ fileOps.pc = "called"
  /\ IF Len(BlurryFiles(opsCall.results)) = 0
     THEN /\ fileOps' = [fileOps EXCEPT !.pc = "done", !.outcome = Return(Summary(fileOps))]
          /\ UNCHANGED disk
     ELSE IF CreatesDirectory(opsCall)
     THEN /\ disk' = ensureDirectory(disk, opsCall.outputDir).disk
          /\ fileOps' =
               IF ensureDirectory(disk, opsCall.outputDir).result.success
               THEN [fileOps EXCEPT !.pc = "loop", !.blurryFiles = BlurryFiles(opsCall.results)]
               ELSE [fileOps EXCEPT !.pc = "done",
                       !.outcome = Throw(<<"Failed to create directory", opsCall.outputDir,
                                           ensureDirectory(disk, opsCall.outputDir).result.error>>)]
     ELSE /\ fileOps' = [fileOps EXCEPT !.pc = "loop", !.blurryFiles = BlurryFiles(opsCall.results)]
          /\ UNCHANGED disk
  /\ UNCHANGED opsCall
  /\ UNCHANGED programVars
  /\ UNCHANGED outsideOps

\* An iteration of the loop under dryRun.
SimulateOperation ==
  /\ fileOps.pc = "loop"
  /\ opsCall.dryRun
  /\ fileOps' = Simulated(fileOps, opsCall, Current)
  /\ UNCHANGED <<opsCall, disk>>
  /\ UNCHANGED programVars
  /\ UNCHANGED outsideOps

\* An iteration of the loop in rename mode.
RenameOperation ==
  /\ fileOps.pc = "loop"
  /\ ~opsCall.dryRun
  /\ opsCall.rename
  /\ disk' = renameFileWithSuffix(disk, Current.file, opsCall.suffix).disk
  /\ fileOps' = Operated(fileOps, opsCall, Current,
                         renameFileWithSuffix(disk, Current.file, opsCall.suffix).result)
  /\ UNCHANGED opsCall
  /\ UNCHANGED programVars
  /\ UNCHANGED outsideOps

\* An iteration of the loop in move mode.
MoveOperation ==
  /\ fileOps.pc = "loop"
  /\ ~opsCall.dryRun
  /\ ~opsCall.rename
  /\ opsCall.move
  /\ disk' = moveFile(disk, Current.file, DestPath(opsCall, Current)).disk
  /\ fileOps' = Operated(fileOps, opsCall, Current,
                         moveFile(disk, Current.file, DestPath(opsCall, Current)).result)
  /\ UNCHANGED opsCall
  /\ UNCHANGED programVars
  /\ UNCHANGED outsideOps

\* An iteration of the loop in copy mode.
CopyOperation ==
  /\ fileOps.pc = "loop"
  /\ ~opsCall.dryRun
  /\ ~opsCall.rename
  /\ ~opsCall.move
  /\ disk' = copyFile(disk, Current.file, DestPath(opsCall, Current)).disk
  /\ fileOps' = Operated(fileOps, opsCall, Current,
                         copyFile(disk, Current.file, DestPath(opsCall, Current)).result)
  /\ UNCHANGED opsCall
  /\ UNCHANGED programVars
  /\ UNCHANGED outsideOps

NextOps ==
  StartProcessing \/ SimulateOperation \/ RenameOperation \/ MoveOperation \/ CopyOperation

SpecOps == InitOps /\ [][NextOps]_vars

(***************************************************************************)
(* SpecHold: a Calibration object through a series of computeStats,        *)
(* loadStats, getStats and saveStats calls, all given the same path.       *)
(***************************************************************************)
\* Largest number of calls made on the object.
MaxCalls == 3

\* The result lists handed to computeStats: none, the error record of a
\* file without preview, and the composite results of two files.
HoldCorpora ==
  {AnalyzeAll(BlurDetector(Options(Undefined, "composite", NoStats, Omitted, Undefined)), list) :
     list \in {<<>>, <<FilePath(3)>>, <<FilePath(1), FilePath(2)>>}}

\* A file whose content is not JSON.
TruncatedFile == WrittenFile([text |-> "{"])

HoldFiles == {NoFile, TruncatedFile, WrittenFile(JsonStringify(SampleStats))}

InitHold ==
  /\ ProgramIdle
  /\ KernelsIdle
  /\ JoinIdle
  /\ OpsIdle
  /\ FlightIdle
  /\ ScanIdle
  /\ holder = [stats |-> NoStats]
  /\ holderFile \in HoldFiles
  /\ calls = <<>>

\* The calls after one of `op` ended as `result`.
Recorded(op, result) ==
  Append(calls, [op |-> op, held |-> holder.stats, file |-> holderFile, outcome |-> result])

\* calibration.computeStats(results, patchMode)
HoldComputeStats ==
  /\ Len(calls) < MaxCalls
  /\ \E results \in HoldCorpora, patchMode \in BOOLEAN :
       /\ calls' = Recorded("computeStats", computeStats(results, patchMode))
       /\ holder' = StatsAfter(holder, computeStats(results, patchMode))
  /\ UNCHANGED holderFile
  /\ UNCHANGED programVars
  /\ UNCHANGED outsideHold

\* calibration.loadStats(path)
HoldLoadStats ==
  /\ Len(calls) < MaxCalls
  /\ calls' = Recorded("loadStats", loadStats(holderFile))
  /\ holder' = StatsAfter(holder, loadStats(holderFile))
  /\ UNCHANGED holderFile
  /\ UNCHANGED programVars
  /\ UNCHANGED outsideHold

\* calibration.getStats()
HoldGetStats ==
  /\ Len(calls) < MaxCalls
  /\ calls' = Recorded("getStats", getStats(holder, holderFile, FALSE))
  /\ UNCHANGED <<holder, holderFile>>
  /\ UNCHANGED programVars
  /\ UNCHANGED outsideHold

\* calibration.saveStats(path)
HoldSaveStats ==
  /\ Len(calls) < MaxCalls
  /\ calls' = Recorded("saveStats", saveStats(holder, NoStats))
  /\ holderFile' = IF saveStats(holder, NoStats).ok
                   THEN WrittenFile(JsonStringify(saveStats(holder, NoStats).v))
                   ELSE holderFile
  /\ UNCHANGED holder
  /\ UNCHANGED programVars
  /\ UNCHANGED outsideHold

NextHold == HoldComputeStats \/ HoldLoadStats \/ HoldGetStats \/ HoldSaveStats

SpecHold == InitHold /\ [][NextHold]_vars

(***************************************************************************)
(* SpecFlight: analyze calls in flight on one BlurDetector, with           *)
(* setThreshold calls between their steps.  A call runs to its first       *)
(* await when it is made; it continues when the preview has been extracted *)
(* and encoded, and again when calculateBlurScore has settled, each time   *)
(* up to its next await or its return.                                     *)
(***************************************************************************)
\* The number of analyze calls.
MaxFlights == 2

FlightOptions ==
  {Options(Undefined, "composite", NoStats, Omitted, Undefined),
   Options(Num(30), "patch-based", NoStats, "median", Num(2)),
   Options(Num(30), "laplacian", NoStats, Omitted, Undefined)}

\* The files analyzed: a flat one, one with a sharp patch, one without
\* preview and one on which every kernel fails.
FlightFiles == {FilePath(i) : i \in 1..4}

\* analyze that decides the verdict with the threshold the detector had when
\* the call was made, and reports the threshold it has on return.
FlightResultEarlyVerdict(self, snapshot, filePath, score) ==
  IF score.ok
  THEN Return([ResultRecord(snapshot, filePath, score.v) EXCEPT !.threshold = self.threshold])
  ELSE AnalyzeScored(self, filePath, score)

\* The rest of analyze once calculateBlurScore has settled as `score`: the
\* verdict and the record are made from this.threshold as it then is;
\* `snapshot` is the detector as it was when the call was made.
FlightResult(self, snapshot, filePath, score) == AnalyzeScored(self, filePath, score)

InitFlight ==
  /\ ProgramIdle
  /\ KernelsIdle
  /\ JoinIdle
  /\ OpsIdle
  /\ HoldIdle
  /\ ScanIdle
  /\ shared \in {BlurDetector(o) : o \in FlightOptions}
  /\ flights \in [1..MaxFlights ->
                    {[file |-> f, stage |-> "idle", snapshot |-> NotCalled,
                      rawScore |-> NotCalled, result |-> NotCalled] : f \in FlightFiles}]
  /\ flightSets = 0

\* detector.analyze(filePath) is called and reaches
\* await this.extractor.extract(filePath)
CallAnalyze ==
  /\ \E c \in 1..MaxFlights :
       /\ flights[c].stage = "idle"
       /\ flights' = [flights EXCEPT ![c].stage = "extracting", ![c].snapshot = shared]
  /\ UNCHANGED <<shared, flightSets>>
  /\ UNCHANGED programVars
  /\ UNCHANGED outsideFlight

\* The extraction and the encoding settle: the call reaches
\* await this.detector.calculateBlurScore(buffer), or its catch block.
PreviewExtracted ==
  /\ \E c \in 1..MaxFlights :
       /\ flights[c].stage = "extracting"
       /\ flights' =
            IF ExtractBuffer(flights[c].file).ok
            THEN [flights EXCEPT ![c].stage = "scoring"]
            ELSE [flights EXCEPT
                    ![c].stage = "returned",
                    ![c].result = FlightResult(shared, flights[c].snapshot, flights[c].file,
                                               ExtractBuffer(flights[c].file))]
  /\ UNCHANGED <<shared, flightSets>>
  /\ UNCHANGED programVars
  /\ UNCHANGED outsideFlight

\* calculateBlurScore settles: the call runs to its return.
ScoreCalculated ==
  /\ \E c \in 1..MaxFlights :
       /\ flights[c].stage = "scoring"
       /\ \E first \in FirstRejections(flights[c].file) :
            flights' = [flights EXCEPT
              ![c].stage = "returned",
              ![c].rawScore = ScoreOf(shared, flights[c].file, first),
              ![c].result = FlightResult(shared, flights[c].snapshot, flights[c].file,
                                         ScoreOf(shared, flights[c].file, first))]
  /\ UNCHANGED <<shared, flightSets>>
  /\ UNCHANGED programVars
  /\ UNCHANGED outsideFlight

\* detector.setThreshold(threshold) between the steps of the calls
SetSharedThreshold ==
  /\ flightSets < MaxSets
  /\ \E t \in NewThresholds : shared' = [shared EXCEPT !.threshold = t]
  /\ flightSets' = flightSets + 1
  /\ UNCHANGED flights
  /\ UNCHANGED programVars
  /\ UNCHANGED outsideFlight

NextFlight == CallAnalyze \/ PreviewExtracted \/ ScoreCalculated \/ SetSharedThreshold

SpecFlight == InitFlight /\ [][NextFlight]_vars

(***************************************************************************)
(* SpecScan: FileScanner.scan on a path that is a file, a directory or     *)
(* nothing.  A directory is the sequence of its path segments, a file a    *)
(* directory, a name and an extension (written without its dot).           *)
(***************************************************************************)
\* this.supportedFormats
supportedFormats ==
  {"nef", "cr2", "cr3", "arw", "dng", "raf", "orf", "rw2", "pef", "srw", "3fr", "fff",
   "erf", "mrw", "nrw", "raw"}

\* String.prototype.toLowerCase on the extensions and formats of the model.
ToLowerCase(text) ==
  CASE text = "NEF" -> "nef"
    [] text = "JPG" -> "jpg"
    [] OTHER -> text

\* FileScanner.isSupported(filePath)
isSupported(filePath) == ToLowerCase(filePath.ext) \in supportedFormats

\* path.resolve and the absolute paths of glob
Resolve(filePath) == [filePath EXCEPT !.dir = <<"/cwd">> \o filePath.dir]

\* The files a scan can meet, in the order of their paths as strings.
ScanUniverse ==
  << Path(<<"photos">>, "a", "nef"),
     Path(<<"photos">>, "b", "NEF"),
     Path(<<"photos">>, "c", "jpg"),
     Path(<<"photos">>, "d", "cr2"),
     Path(<<"photos", "sub">>, "e", "nef") >>

IsFilePath(target) == "name" \in DOMAIN target

\* The path taken as a directory: the segments of a file path include its
\* file name.
Segments(target) ==
  IF IsFilePath(target) THEN target.dir \o <<target.name, target.ext>> ELSE target.dir

IsPrefix(p, q) == Len(p) <= Len(q) /\ SubSeq(q, 1, Len(p)) = p

\* glob(path.join(dirPath, '*.fmt')) or, recursive, glob(path.join(dirPath,
\* '**', '*.fmt')), with nocase: the files of the directory, or of it and its
\* subdirectories, whose extension is fmt in any case.
Glob(tree, target, fmt, recursive) ==
  {f \in tree : /\ ToLowerCase(f.ext) = fmt
                /\ IF recursive THEN IsPrefix(Segments(target), f.dir)
                   ELSE f.dir = Segments(target)}

\* [...new Set(files)].sort() of resolved paths
RECURSIVE SortedPaths(_, _)
SortedPaths(found, i) ==
  IF i > Len(ScanUniverse) THEN <<>>
  ELSE IF ScanUniverse[i] \in found
  THEN <<Resolve(ScanUniverse[i])>> \o SortedPaths(found, i + 1)
  ELSE SortedPaths(found, i + 1)

\* The option format left out.
NoFormat == "null"

\* The directory scan of FileScanner.scan
ScanDirectory(tree, target, recursive, format) ==
  SortedPaths(UNION {Glob(tree, target, fmt, recursive) :
                       fmt \in (IF format = NoFormat THEN supportedFormats
                                ELSE {ToLowerCase(format)})},
              1)

\* The first part of FileScanner.scan: fs.stat and the single-file branch
\* inside the try block, whose catch block swallows every exception thrown
\* in it.  NotCalled stands for falling through to the directory scan.
ScanSingleFile(tree, target) ==
  IF IsFilePath(target) /\ target \in tree /\ isSupported(target)
  THEN Return(<<Resolve(target)>>)
  ELSE NotCalled

ScanTrees ==
  {{ScanUniverse[i] : i \in S} : S \in SUBSET (1..Len(ScanUniverse))}

ScanTargets ==
  {ScanUniverse[i] : i \in 1..Len(ScanUniverse)}
  \cup {[dir |-> <<"photos">>], [dir |-> <<"photos", "sub">>], [dir |-> <<"missing">>]}

ScanFormats == {NoFormat, "nef", "NEF", "jpg"}

InitScan ==
  /\ ProgramIdle
  /\ KernelsIdle
  /\ JoinIdle
  /\ OpsIdle
  /\ HoldIdle
  /\ FlightIdle
  /\ \E tree \in ScanTrees, target \in ScanTargets, recursive \in BOOLEAN,
        format \in ScanFormats :
       scanCall = [tree |-> tree, dirPath |-> target, recursive |-> recursive,
                   format |-> format]
  /\ scanned = [pc |-> "called", outcome |-> NotCalled]

\* scan up to the end of its try block.
ScanStat ==
  /\ scanned.pc = "called"
  /\ scanned' =
       IF Called(ScanSingleFile(scanCall.tree, scanCall.dirPath))
       THEN [pc |-> "done", outcome |-> ScanSingleFile(scanCall.tree, scanCall.dirPath)]
       ELSE [pc |-> "globbing", outcome |-> NotCalled]
  /\ UNCHANGED scanCall
  /\ UNCHANGED programVars
  /\ UNCHANGED outsideScan

\* The directory scan, to the return of scan.
ScanGlob ==
  /\ scanned.pc = "globbing"
  /\ scanned' = [pc |-> "done",
                 outcome |-> Return(ScanDirectory(scanCall.tree, scanCall.dirPath,
                                                  scanCall.recursive, scanCall.format))]
  /\ UNCHANGED scanCall
  /\ UNCHANGED programVars
  /\ UNCHANGED outsideScan

NextScan == ScanStat \/ ScanGlob

SpecScan == InitScan /\ [][NextScan]_vars

(***************************************************************************)
(* Properties of the normalisation and of the composite score, under       *)
(* SpecCal.                                                                *)
(***************************************************************************)
\* The channels of the latest scoring.
Channels(k) == scored.v.normalized[k]
ChannelsFinite == \A k \in KernelSet : IsFin(Channels(k))
ChannelsInRange == \A k \in KernelSet : InRange(Channels(k), 0, 100)

\* C1: every normalized channel of a scoring lies in [0, 100], hand-tuned or
\* with any calibration record computeStats has returned.
C1_NormalizedChannelsInRange ==
  Called(scored) => ChannelsInRange

\* C2: the composite is 0.30 L + 0.20 G + 0.40 T + 0.10 V of the normalized
\* channels, lies in [0, 100] when the channels do, and is 50 for L = 100,
\* G = 0, T = 50, V = 0.
C2_CompositeIsWeightedSum ==
  /\ Called(scored) /\ ChannelsFinite =>
       scored.v.composite =
         Add(Add(Mul(Fin(3, 10), Channels("laplacian")), Mul(Fin(1, 5), Channels("gradient"))),
             Add(Mul(Fin(2, 5), Channels("tenengrad")), Mul(Fin(1, 10), Channels("variance"))))
  /\ Called(scored) /\ ChannelsInRange => InRange(scored.v.composite, 0, 100)
  /\ WeightedAverage([laplacian |-> Num(100), gradient |-> Num(0),
                      tenengrad |-> Num(50), variance |-> Num(0)]) = Num(50)

\* A calibrated scoring whose channels differ and whose composite lies
\* strictly inside the range.
C2_Witness ==
  /\ Called(scored)
  /\ HasStats(calibration.stats)
  /\ ChannelsInRange
  /\ Channels("laplacian") # Channels("tenengrad")
  /\ Lt(Num(0), scored.v.composite)
  /\ Lt(scored.v.composite, Num(100))

(***************************************************************************)
(* Properties of the verdict, the thresholds and the batch loop, under     *)
(* Spec.                                                                   *)
(***************************************************************************)
\* The score each selectable strategy compares, by the name of its field.
OwnScoreField ==
  [s \in Strategies |->
     IF s = "max-focus" THEN "maxFocus"
     ELSE IF s = "average" THEN "avgFocus"
     ELSE IF s = "median" THEN "medianFocus"
     ELSE IF s = "top-25-percentile" THEN "top25Percentile"
     ELSE IF s = "center-weighted" THEN "centerWeighted"
     ELSE IF s = "peak-focus" THEN "peakFocus"
     ELSE IF s = "subject-focus" THEN "subjectFocus"
     ELSE IF s = "subject-focus-aggressive" THEN "subjectFocusAggressive"
     ELSE IF s = "subject-focus-conservative" THEN "subjectFocusConservative"
     ELSE IF s = "subject-focus-relaxed" THEN "subjectFocusRelaxed"
     ELSE IF s = "subject-focus-strict" THEN "subjectFocusStrict"
     ELSE "subjectFocusVeryStrict"]

\* The latest analyze call returned a result, which is the last one pushed.
JustAnalyzed == Called(lastScore) /\ lastScore.ok /\ analyzed # <<>>
LastResult == analyzed[Len(analyzed)]

\* The unrounded score the verdict of the latest result is about.
VerdictScore ==
  IF LastResult.algorithm = "patch-based"
  THEN lastScore.v[OwnScoreField[blurDetector.strategy]]
  ELSE lastScore.v.composite

\* C3: the verdict of a composite result is composite < threshold and that
\* of a patch-based result is the own score of the strategy < threshold,
\* strictly, for each of the twelve strategies.
C3_VerdictIsStrictlyLess ==
  JustAnalyzed /\ LastResult.algorithm \in {"composite", "patch-based"} =>
    /\ blurDetector.strategy \in Strategies
    /\ LastResult.isBlurry = Lt(VerdictScore, LastResult.threshold)
    /\ VerdictScore = LastResult.threshold => ~LastResult.isBlurry

\* A patch-based result, by a strategy other than the default of isBlurry,
\* whose score equals the threshold.
C3_Witness ==
  /\ JustAnalyzed
  /\ LastResult.algorithm = "patch-based"
  /\ blurDetector.strategy = "median"
  /\ VerdictScore = LastResult.threshold
  /\ ~LastResult.isBlurry

\* The default thresholds by algorithm, strategy and calibration.
DefaultThreshold(algorithm, strategy, calibrated) ==
  IF algorithm = "patch-based" /\ strategy = "peak-focus"
  THEN (IF calibrated THEN 70 ELSE 75)
  ELSE (IF calibrated THEN 25 ELSE 30)

\* C4: without a threshold from the caller the detector uses 30, or 25 with
\* calibration, for composite and patch-based, but 75, or 70 with
\* calibration, for patch-based with peak-focus.
C4_DefaultThresholds ==
  /\ detectorOptions.threshold = Undefined
  /\ sets = 0
  /\ blurDetector.algorithm \in {"composite", "patch-based"}
  => /\ blurDetector.threshold =
          Num(DefaultThreshold(blurDetector.algorithm, blurDetector.strategy,
                               HasStats(detectorOptions.calibrationStats)))
     /\ \A i \in 1..Len(analyzed) :
          "error" \notin DOMAIN analyzed[i] => analyzed[i].threshold = blurDetector.threshold

\* A calibrated peak-focus result reporting the default 70.
C4_Witness ==
  /\ detectorOptions.threshold = Undefined
  /\ sets = 0
  /\ blurDetector.algorithm = "patch-based"
  /\ blurDetector.strategy = "peak-focus"
  /\ HasStats(detectorOptions.calibrationStats)
  /\ JustAnalyzed
  /\ LastResult.threshold = Num(70)

\* C5: a threshold the caller supplies, 0 included, is the threshold of the
\* detector and the one every result reports, for every algorithm.
C5_ExplicitThresholdIsEffective ==
  detectorOptions.threshold # Undefined /\ sets = 0 =>
    /\ blurDetector.threshold = detectorOptions.threshold
    /\ \A i \in 1..Len(analyzed) :
         "error" \notin DOMAIN analyzed[i] =>
           analyzed[i].threshold = detectorOptions.threshold

\* Extraction, decoding or a kernel fails for the file.
Failing(filePath) ==
  \/ ~FileSystem[filePath.name].preview
  \/ ~FileSystem[filePath.name].encodable
  \/ FileSystem[filePath.name].fails # {}

\* C6: analyze never raises; for a failing file it returns a record with an
\* error and without blurScore, isBlurry and scores, and a record without an
\* error carries blurScore, isBlurry and threshold.
C6_FailureIsAnErrorRecord ==
  /\ pc # "aborted"
  /\ \A i \in 1..Len(analyzed) :
       IF Failing(files[i])
       THEN /\ "error" \in DOMAIN analyzed[i]
            /\ DOMAIN analyzed[i] \cap {"blurScore", "isBlurry", "scores"} = {}
       ELSE /\ "error" \notin DOMAIN analyzed[i]
            /\ {"blurScore", "isBlurry", "threshold"} \subseteq DOMAIN analyzed[i]

\* A kernel failure reported as an error record next to a scored result.
C6_Witness ==
  /\ Len(analyzed) = 2
  /\ \E i \in 1..2 :
       /\ FileSystem[files[i].name].fails # {}
       /\ "error" \in DOMAIN analyzed[i]
       /\ analyzed[i].error[1] = "Failed to calculate composite score"
  /\ \E i \in 1..2 : "blurScore" \in DOMAIN analyzed[i]

\* C7: the batch has one result per scanned file, in scan order; analyze of
\* the next file returns whatever failed before, so the loop goes on after a
\* failing file, and it ends only at the end of the list.
C7_OneResultPerFileInOrder ==
  /\ pc # "aborted"
  /\ Len(analyzed) <= Len(files)
  /\ \A i \in 1..Len(analyzed) : analyzed[i].file = files[i]
  /\ pc = "running" /\ Len(analyzed) < Len(files) =>
       \A first \in FirstRejections(files[Len(analyzed) + 1]) :
         AnalyzeScored(blurDetector, files[Len(analyzed) + 1],
                       ScoreOf(blurDetector, files[Len(analyzed) + 1], first)).ok
  /\ pc = "done" => Len(analyzed) = Len(files)

\* A finished batch whose first file failed and whose second was scored.
C7_Witness ==
  /\ pc = "done"
  /\ Len(files) = 2
  /\ Failing(files[1])
  /\ "error" \in DOMAIN analyzed[1]
  /\ "blurScore" \in DOMAIN analyzed[2]

(***************************************************************************)
(* Properties of computeStats, under SpecCal.  The data points are counted *)
(* from the corpus itself: a point is a valid result in full-image mode    *)
(* and a patch of a valid result in patch mode.                            *)
(***************************************************************************)
ValidIndices ==
  {i \in 1..Len(corpus) : "error" \notin DOMAIN corpus[i] /\ "scores" \in DOMAIN corpus[i]}

PatchPoints ==
  UNION {{<<i, j>> : j \in 1..Len(corpus[i].scores.patchScores)} :
           i \in {v \in ValidIndices : "patchScores" \in DOMAIN corpus[v].scores}}

DataPoints == IF perPatch THEN PatchPoints ELSE {<<i, 0>> : i \in ValidIndices}

\* The raw score of an algorithm at a data point.
DataValue(pt, alg) ==
  IF perPatch THEN corpus[pt[1]].scores.patchScores[pt[2]][alg]
  ELSE IF alg \in DOMAIN corpus[pt[1]].scores THEN corpus[pt[1]].scores[alg]
  ELSE Undefined

DataFinite == \A pt \in DataPoints : \A alg \in KernelSet : IsFin(DataValue(pt, alg))

\* The k-th smallest raw score, k from 1: the value with fewer than k points
\* below it and at least k points not above it.
OrderStatistic(alg, k) ==
  DataValue(CHOOSE pt \in DataPoints :
              /\ Cardinality({q \in DataPoints : Lt(DataValue(q, alg), DataValue(pt, alg))}) < k
              /\ k <= Cardinality({q \in DataPoints : Le(DataValue(q, alg), DataValue(pt, alg))}),
            alg)

\* The reference percentile: linear interpolation between the order
\* statistics around the fractional rank p/100 * (n - 1).
ReferencePercentile(alg, p) ==
  LET n == Cardinality(DataPoints)
      whole == (p * (n - 1)) \div 100
      part == (p * (n - 1)) % 100
      below == OrderStatistic(alg, whole + 1)
      above == OrderStatistic(alg, IF whole + 2 <= n THEN whole + 2 ELSE n)
  IN  Add(below, Mul(Fin(part, 100), Sub(above, below)))

\* C8: computeStats fails when no data point remains, and a record it
\* returns has totalSamples >= 1.
C8_FailsWithoutDataPoints ==
  Called(outcome) =>
    /\ DataPoints = {} => ~outcome.ok
    /\ outcome.ok => outcome.v.totalSamples >= 1

\* C9: for a non-empty corpus of valid results, p5, median and p95 of each
\* algorithm are the reference percentiles at 5, 50 and 95 of its raw scores
\* and min and max are the smallest and the largest raw score.
C9_PercentilesMatchReference ==
  Called(outcome) /\ outcome.ok /\ DataPoints # {} /\ DataFinite =>
    \A alg \in KernelSet :
      /\ outcome.v[alg].p5 = ReferencePercentile(alg, 5)
      /\ outcome.v[alg].median = ReferencePercentile(alg, 50)
      /\ outcome.v[alg].p95 = ReferencePercentile(alg, 95)
      /\ outcome.v[alg].min = OrderStatistic(alg, 1)
      /\ outcome.v[alg].max = OrderStatistic(alg, Cardinality(DataPoints))

\* Statistics of eight patch scores whose 95th percentile is interpolated
\* strictly between two of them and whose median lies above the smallest.
C9_Witness ==
  /\ Called(outcome) /\ outcome.ok
  /\ Cardinality(DataPoints) = 8
  /\ DataFinite
  /\ Lt(outcome.v.laplacian.min, outcome.v.laplacian.median)
  /\ Lt(outcome.v.laplacian.p95, outcome.v.laplacian.max)
  /\ \A pt \in DataPoints : DataValue(pt, "laplacian") # outcome.v.laplacian.p95

\* C10: the record carries the number of valid images as sampleSize, the flag
\* as patchMode and a version; in patch mode totalSamples counts every patch
\* of every valid image and the statistics range over all of them; in
\* full-image mode totalSamples is sampleSize.
C10_PatchModeUsesEveryPatch ==
  Called(outcome) /\ outcome.ok =>
    /\ outcome.v.sampleSize = Cardinality(ValidIndices)
    /\ outcome.v.patchMode = perPatch
    /\ outcome.v.version = "1.0.0"
    /\ perPatch => outcome.v.totalSamples = Cardinality(PatchPoints)
    /\ perPatch /\ PatchPoints # {} =>
         \A alg \in KernelSet :
           /\ \A pt \in PatchPoints : Le(outcome.v[alg].min, DataValue(pt, alg))
           /\ \A pt \in PatchPoints : Le(DataValue(pt, alg), outcome.v[alg].max)
           /\ \E pt \in PatchPoints : outcome.v[alg].min = DataValue(pt, alg)
           /\ \E pt \in PatchPoints : outcome.v[alg].max = DataValue(pt, alg)
    /\ ~perPatch => outcome.v.totalSamples = outcome.v.sampleSize

\* Patch-mode statistics of two images of four patches each, next to a
\* failed one that is not counted.
C10_Witness ==
  /\ Called(outcome) /\ outcome.ok
  /\ perPatch
  /\ outcome.v.sampleSize = 2
  /\ outcome.v.totalSamples = 8
  /\ Lt(outcome.v.laplacian.min, outcome.v.laplacian.max)

(***************************************************************************)
(* Properties of a run of blurry-filter, under SpecCli.                    *)
(***************************************************************************)
\* The calibration record the detector of the run normalizes with.
RunStats == blurDetector.detector.calibrationStats

\* A file has been scored by the detector of the run.
ScoringRun == Called(lastScore) /\ lastScore.ok

\* C11: no scoring run normalizes the composite algorithm with a patch-mode
\* calibration record, nor the patch-based algorithm with a full-image one.
C11_CalibrationModesNotInterchanged ==
  ScoringRun /\ HasStats(RunStats) =>
    /\ blurDetector.detector.kind = "composite" => ~RunStats.patchMode
    /\ blurDetector.detector.kind = "patch-based" => RunStats.patchMode

\* C12: with --use-calibration and an existing calibration file the detector
\* is constructed with the loaded record for patch-based as for composite,
\* and the calibrated default threshold, 70 for peak-focus, applies.
C12_CliCalibratesPatchBased ==
  /\ pc \in {"running", "done"}
  /\ cli.useCalibration
  /\ statsFile.exists
  /\ cli.algorithm \in {"composite", "patch-based"}
  => /\ blurDetector.calibrationStats = JsonParse(statsFile.content)
     /\ RunStats = JsonParse(statsFile.content)
     /\ (cli.algorithm = "patch-based" /\ cli.strategy = "peak-focus"
         /\ cli.threshold = Undefined) => blurDetector.threshold = Num(70)

\* A configuration the scorer does not support: an algorithm name or, with
\* patch-based, a strategy name outside the documented ones, or a patch grid
\* size that is not positive.
InvalidConfiguration(opts) ==
  \/ opts.algorithm \notin {"composite", "patch-based", "laplacian", "gradient",
                            "tenengrad", "variance"}
  \/ /\ opts.algorithm = "patch-based"
     /\ \/ opts.strategy \notin Strategies
        \/ ~Lt(Num(0), ParseInt(opts.patchSize))

\* C13: an invalid configuration fails at the construction of the
\* BlurDetector, so no detector exists and no result carries a verdict.
C13_InvalidConfigurationIsFatal ==
  InvalidConfiguration(cli) =>
    /\ blurDetector = NoDetector
    /\ \A i \in 1..Len(analyzed) : "isBlurry" \notin DOMAIN analyzed[i]

(***************************************************************************)
(* Properties of a PatchBasedDetector used on its own, under SpecPatch.    *)
(***************************************************************************)
GridSize == patchAnalyzer.patchSize

\* The rectangles of two patches share no pixel.
Disjoint(p, q) ==
  \/ p.left + p.width <= q.left
  \/ q.left + q.width <= p.left
  \/ p.top + p.height <= q.top
  \/ q.top + q.height <= p.top

\* The patch lies inside an image of the given size.
Inside(p, width, height) ==
  /\ 0 <= p.left /\ p.left + p.width <= width
  /\ 0 <= p.top /\ p.top + p.height <= height

Composites ==
  [i \in 1..Len(patchOutcome.v.patchScores) |-> patchOutcome.v.patchScores[i].composite]

\* calculateBlurScore returned scores for at least one patch, all of them
\* numbers.
PatchesScored ==
  /\ Called(patchOutcome) /\ patchOutcome.ok
  /\ Len(patchOutcome.v.patchScores) >= 1
  /\ \A i \in 1..Len(patchOutcome.v.patchScores) :
       IsFin(patchOutcome.v.patchScores[i].composite)

\* The k-th smallest of the values (k from 1), by counting.
KthSmallest(values, k) ==
  CHOOSE v \in {values[i] : i \in 1..Len(values)} :
    /\ Cardinality({i \in 1..Len(values) : Lt(values[i], v)}) < k
    /\ k <= Cardinality({i \in 1..Len(values) : Le(values[i], v)})

\* The p-th percentile by linear interpolation between the order statistics
\* next to the rank p/100 * (n - 1).
InterpolatedPercentile(values, p) ==
  LET whole == (p * (Len(values) - 1)) \div 100
      part == Fin((p * (Len(values) - 1)) % 100, 100)
  IN  IF part = Num(0) THEN KthSmallest(values, whole + 1)
      ELSE Add(Mul(KthSmallest(values, whole + 1), Sub(Num(1), part)),
               Mul(KthSmallest(values, whole + 2), part))

\* The sum of the first k values, from the left.
RECURSIVE PrefixSum(_, _)
PrefixSum(values, k) ==
  IF k = 0 THEN Num(0) ELSE Add(PrefixSum(values, k - 1), values[k])

\* C15: for the composite scores of the patches of one image, maxFocus is the
\* largest and minFocus the smallest of them, avgFocus is their arithmetic
\* mean, and medianFocus, top25Percentile and top10Percentile are their 50th,
\* 75th and 90th percentiles by linear interpolation.
C15_FocusStatistics ==
  PatchesScored =>
    /\ patchOutcome.v.maxFocus = KthSmallest(Composites, Len(Composites))
    /\ \A i \in 1..Len(Composites) : Le(Composites[i], patchOutcome.v.maxFocus)
    /\ patchOutcome.v.minFocus = KthSmallest(Composites, 1)
    /\ \A i \in 1..Len(Composites) : Le(patchOutcome.v.minFocus, Composites[i])
    /\ Mul(patchOutcome.v.avgFocus, Num(Len(Composites)))
         = PrefixSum(Composites, Len(Composites))
    /\ patchOutcome.v.medianFocus = InterpolatedPercentile(Composites, 50)
    /\ patchOutcome.v.top25Percentile = InterpolatedPercentile(Composites, 75)
    /\ patchOutcome.v.top10Percentile = InterpolatedPercentile(Composites, 90)

\* Nine or more patches were scored, not in ascending order, and the
\* statistics differ from one another.
C15_Witness ==
  /\ PatchesScored
  /\ Len(Composites) >= 9
  /\ Lt(Composites[2], Composites[1])
  /\ Lt(patchOutcome.v.minFocus, patchOutcome.v.medianFocus)
  /\ Lt(patchOutcome.v.medianFocus, patchOutcome.v.top25Percentile)
  /\ Lt(patchOutcome.v.top25Percentile, patchOutcome.v.top10Percentile)
  /\ Lt(patchOutcome.v.top10Percentile, patchOutcome.v.maxFocus)
  /\ patchOutcome.v.avgFocus # patchOutcome.v.medianFocus

\* The subject-focus variants: topPercent, sigma and the score field.
SubjectFocusVariants ==
  {<<Fin(8, 100), Fin(15, 10), "subjectFocusAggressive">>,
   <<Fin(12, 100), Num(1), "subjectFocus">>,
   <<Fin(18, 100), Fin(7, 10), "subjectFocusConservative">>,
   <<Fin(28, 100), Fin(5, 10), "subjectFocusRelaxed">>,
   <<Fin(38, 100), Fin(4, 10), "subjectFocusStrict">>,
   <<Fin(40, 100), Fin(35, 100), "subjectFocusVeryStrict">>}

\* The patches a variant retains from the patches scored.
Retained(variant) ==
  SubjectFocusTopPatches(patchOutcome.v.patchScores, GridSize, GridSize,
                         variant[1], variant[2])

\* max(3, ceil(n * topPercent)), in exact arithmetic.
RetainedCount(n, topPercent) ==
  IF Ceil(Mul(Num(n), topPercent)) > 3 THEN Ceil(Mul(Num(n), topPercent)) ELSE 3

\* The retained patches are max(3, ceil(n * topPercent)) in number, none of
\* them is scored below a patch left out, and the variant's score is their
\* mean weighted by position.
SpecifiedRetention(top, variant) ==
  /\ Len(top) = RetainedCount(Len(Composites), variant[1])
  /\ \A j \in 1..Len(Composites) :
       (\A q \in 1..Len(top) : top[q].index # j - 1)
         => \A r \in 1..Len(top) : Le(Composites[j], top[r].composite)
  /\ patchOutcome.v[variant[3]]
       = Div(PrefixSum([r \in 1..Len(top) |->
                          Mul(top[r].composite,
                              PositionWeight(top[r].index, GridSize, GridSize,
                                             variant[2]))],
                       Len(top)),
             PrefixSum([r \in 1..Len(top) |->
                          PositionWeight(top[r].index, GridSize, GridSize, variant[2])],
                       Len(top)))

RetainsAsSpecified(variant) == SpecifiedRetention(Retained(variant), variant)

\* C16: whenever at least three patches were scored, each subject-focus
\* variant with parameters (topPercent, sigma) retains exactly
\* max(3, ceil(n * topPercent)) of the n patches, those with the highest
\* composite scores, and its score is the sum of composite * positionWeight
\* over the retained patches divided by the sum of their positionWeight.
C16_SubjectFocusRetainsTopPatches ==
  (PatchesScored /\ Len(Composites) >= 3) =>
    \A variant \in SubjectFocusVariants : RetainsAsSpecified(variant)

\* The same for the grids whose patch count is not a multiple of 25.
SubjectFocusOffMultiplesOf25 ==
  (PatchesScored /\ Len(Composites) >= 3 /\ Len(Composites) % 25 # 0) =>
    \A variant \in SubjectFocusVariants : RetainsAsSpecified(variant)

\* The three patches with the highest composite scores, as peak-focus takes
\* them, and the indices of the patches that remain.
TopThree == Slice(SortByCompositeDescending(patchOutcome.v.patchScores), 3)

Remaining ==
  {j \in 1..Len(Composites) :
     \A q \in 1..Len(TopThree) :
       <<TopThree[q].x, TopThree[q].y>>
         # <<patchOutcome.v.patchScores[j].x, patchOutcome.v.patchScores[j].y>>}

\* Composite scores a remaining patch may be given: those below the scores
\* of the top three.
LowerComposites ==
  {c \in {Num(0), Num(10), Num(29), Fin(91, 2), Num(99)} :
     \A q \in 1..Len(TopThree) : Lt(c, TopThree[q].composite)}

\* The patches scored, with the composite of the patches in J replaced by c.
WithComposite(J, c) ==
  [i \in 1..Len(Composites) |->
     IF i \in J THEN [patchOutcome.v.patchScores[i] EXCEPT !.composite = c]
     ELSE patchOutcome.v.patchScores[i]]

\* C17: the peak-focus score is a function of the raw Tenengrad values of the
\* three patches with the highest composite scores alone: it is what
\* calculatePeakFocus gives for these three patches by themselves, and giving
\* one or all of the remaining patches another composite score below those
\* of the top three, their Tenengrad unchanged, leaves it as it is.
C17_PeakFocusReadsTopThree ==
  (PatchesScored /\ Len(Composites) >= 4) =>
    /\ patchOutcome.v.peakFocus
         = calculatePeakFocus(patchAnalyzer,
             [q \in 1..3 |-> [composite |-> Num(100 - q),
                               tenengrad |-> TopThree[q].tenengrad]])
    /\ \A c \in LowerComposites :
         /\ calculatePeakFocus(patchAnalyzer, WithComposite(Remaining, c))
              = patchOutcome.v.peakFocus
         /\ \A j \in Remaining :
              calculatePeakFocus(patchAnalyzer, WithComposite({j}, c))
                = patchOutcome.v.peakFocus

\* Nine or more patches were scored, the peak-focus score lies strictly
\* between 0 and 100, and a remaining patch can be given a lower composite
\* score below the top three.
C17_Witness ==
  /\ PatchesScored
  /\ Len(Composites) >= 9
  /\ Lt(Num(0), patchOutcome.v.peakFocus)
  /\ Lt(patchOutcome.v.peakFocus, Num(100))
  /\ \E j \in Remaining, c \in LowerComposites :
       /\ Lt(c, Composites[j])
       /\ Lt(Num(0), patchOutcome.v.patchScores[j].tenengrad)

\* The logarithm of the mean Tenengrad of the top three patches, and the
\* logarithms mapped to 0 and to 100.
PeakLog ==
  GuardedLog10(Div(PrefixSum([q \in 1..Len(TopThree) |-> TopThree[q].tenengrad],
                             Len(TopThree)),
                   Num(Len(TopThree))))

PeakLow ==
  IF HasStats(patchAnalyzer.calibrationStats)
  THEN GuardedLog10(patchAnalyzer.calibrationStats.tenengrad.p5)
  ELSE Num(3)

PeakHigh ==
  IF HasStats(patchAnalyzer.calibrationStats)
  THEN GuardedLog10(patchAnalyzer.calibrationStats.tenengrad.p95)
  ELSE Num(9)

\* C18: whenever patches with finite, non-negative Tenengrad values were
\* scored, the peak-focus score is a number within [0, 100]: 0 where the
\* logarithm of the mean Tenengrad of the top three is at or below the lower
\* end of the range (log10 of the calibration p5, 3.0 without calibration),
\* 100 where it is at or above the upper end (log10 of p95, 9.0 without
\* calibration), and linear in between.
C18_PeakFocusWithinRange ==
  (Called(patchOutcome) /\ patchOutcome.ok
   /\ Len(patchOutcome.v.patchScores) >= 1
   /\ \A i \in 1..Len(Composites) :
        /\ IsFin(patchOutcome.v.patchScores[i].tenengrad)
        /\ Le(Num(0), patchOutcome.v.patchScores[i].tenengrad)) =>
    /\ InRange(patchOutcome.v.peakFocus, 0, 100)
    /\ patchOutcome.v.peakFocus
         = (IF Le(PeakLog, PeakLow) THEN Num(0)
            ELSE IF Le(PeakHigh, PeakLog) THEN Num(100)
            ELSE Mul(Num(100), Div(Sub(PeakLog, PeakLow), Sub(PeakHigh, PeakLow))))

\* The same for the analyzers whose range is not empty.
PeakFocusWithinProperRange ==
  Lt(PeakLow, PeakHigh) => C18_PeakFocusWithinRange

\* C19: both percentile implementations return the smallest of the numbers
\* for p = 0 and the largest for p = 100 (the first and the last element of
\* the sorted array), and 0 for an empty array whatever p is.
C19_PercentileEndpoints ==
  Called(ranked) =>
    /\ Len(Composites) = 0 =>
         ranked.calibration = Num(0) /\ ranked.patch = Num(0)
    /\ (Len(Composites) >= 1 /\ ranked.p = 0) =>
         /\ ranked.calibration = SortAscending(Composites)[1]
         /\ ranked.calibration = KthSmallest(Composites, 1)
         /\ ranked.patch = KthSmallest(Composites, 1)
    /\ (Len(Composites) >= 1 /\ ranked.p = 100) =>
         /\ ranked.calibration = SortAscending(Composites)[Len(Composites)]
         /\ ranked.calibration = KthSmallest(Composites, Len(Composites))
         /\ ranked.patch = KthSmallest(Composites, Len(Composites))

\* The 100th percentile of nine or more unsorted scores was asked for, and
\* it is neither the last of them nor their median.
C19_Witness ==
  /\ Called(ranked)
  /\ ranked.p = 100
  /\ Len(Composites) >= 9
  /\ ranked.patch # Composites[Len(Composites)]
  /\ Lt(patchOutcome.v.medianFocus, ranked.patch)
  /\ Lt(patchOutcome.v.minFocus, patchOutcome.v.medianFocus)

(***************************************************************************)
(* Properties of saving and loading a calibration, under SpecCal.          *)
(***************************************************************************)
\* Reading any field of the record loadStats returned gives the value the
\* field has in the record computeStats returned; a property that is absent
\* reads as undefined.
SameRecord(read, written) ==
  /\ DOMAIN read = DOMAIN written
  /\ \A k \in DOMAIN written :
       IF k \in KernelSet
       THEN \A f \in DOMAIN written[k] \cup DOMAIN read[k] :
              Field(read[k], f) = Field(written[k], f)
       ELSE read[k] = written[k]

\* C20: when the record computeStats returned has been saved and the file
\* is loaded, loadStats returns a record equal to it field for field.
C20_SaveLoadRoundTrip ==
  (Called(loaded) /\ loaded.ok) => SameRecord(loaded.v, outcome.v)

\* The same for the records whose statistics are all finite numbers.
RoundTripOfFiniteStatistics ==
  (Called(loaded) /\ loaded.ok
   /\ \A k \in KernelSet : \A f \in DOMAIN outcome.v[k] : IsFin(outcome.v[k][f]))
    => SameRecord(loaded.v, outcome.v)

(***************************************************************************)
(* Properties of the kernels, under SpecKernel.                            *)
(***************************************************************************)
\* Every pixel of the buffer has the same gray level.
ConstantIntensity ==
  /\ grayscale.decodable
  /\ \A i \in 1..Len(grayscale.data) : grayscale.data[i] = grayscale.data[1]

\* C21: a score returned by any of the four kernels is a number >= 0, and it
\* is exactly 0 when every pixel of the buffer has the same gray level,
\* whatever the width and the height are.
C21_KernelScoresNonNegative ==
  \A k \in KernelSet :
    (Called(measured[k]) /\ measured[k].ok) =>
      /\ IsFin(measured[k].v)
      /\ Le(Num(0), measured[k].v)
      /\ ConstantIntensity => measured[k].v = Num(0)

\* The four kernels returned for a 4x3 buffer of constant intensity 255.
C21_Witness ==
  /\ ConstantIntensity
  /\ grayscale.width = 4 /\ grayscale.height = 3
  /\ grayscale.data[1] = 255
  /\ \A k \in KernelSet : Called(measured[k]) /\ measured[k].ok

(***************************************************************************)
(* Properties of the diagnostics of a patch-based score, under SpecPatch.  *)
(***************************************************************************)
\* The buckets of the histogram and the scores each is specified to hold.
InBucket(bucket, c) ==
  CASE bucket = "veryBlurry" -> Lt(c, Num(10))
    [] bucket = "blurry" -> Le(Num(10), c) /\ Lt(c, Num(25))
    [] bucket = "borderline" -> Le(Num(25), c) /\ Lt(c, Num(40))
    [] bucket = "sharp" -> Le(Num(40), c) /\ Lt(c, Num(60))
    [] bucket = "verySharp" -> Le(Num(60), c)

Buckets == {"veryBlurry", "blurry", "borderline", "sharp", "verySharp"}

\* Every patch is counted in exactly one bucket, every bucket counts the
\* patches of its range, the counts sum to patchCount, and sharpPatchCount
\* counts the patches scored above 30.
HistogramPartitions ==
  /\ patchOutcome.v.patchCount = Len(Composites)
  /\ \A i \in 1..Len(Composites) :
       Cardinality({b \in Buckets : InBucket(b, Composites[i])}) = 1
  /\ \A b \in Buckets :
       patchOutcome.v.histogram[b]
         = Cardinality({i \in 1..Len(Composites) : InBucket(b, Composites[i])})
  /\ patchOutcome.v.histogram.veryBlurry + patchOutcome.v.histogram.blurry
       + patchOutcome.v.histogram.borderline + patchOutcome.v.histogram.sharp
       + patchOutcome.v.histogram.verySharp = patchOutcome.v.patchCount
  /\ patchOutcome.v.sharpPatchCount
       = Cardinality({i \in 1..Len(Composites) : Lt(Num(30), Composites[i])})

\* C22: in every patch-based score the five histogram buckets (below 10,
\* [10,25), [25,40), [40,60), 60 and above) count each patch in exactly one
\* bucket, so that the counts sum to patchCount, and sharpPatchCount is the
\* number of patches with a composite score strictly above 30.
C22_HistogramPartitionsPatches ==
  (Called(patchOutcome) /\ patchOutcome.ok) => HistogramPartitions

\* The same for the scores whose patch composites are all numbers.
HistogramOfFiniteComposites ==
  (Called(patchOutcome) /\ patchOutcome.ok
   /\ \A i \in 1..Len(Composites) : IsFin(Composites[i])) => HistogramPartitions

(***************************************************************************)
(* The join of the four kernels, under SpecJoin.                           *)
(***************************************************************************)
\* The four kernels evaluated one after the other in array order, the first
\* failure ending the evaluation.
FirstFailing(buffer) ==
  Kernels[CHOOSE i \in 1..4 : Kernels[i] \in buffer.fails
                              /\ \A j \in 1..(i - 1) : Kernels[j] \notin buffer.fails]

SequentialComposite(det, buffer) ==
  CompositeScore(det, buffer, IF buffer.fails = {} THEN "laplacian" ELSE FirstFailing(buffer))

AllSettled == \A k \in KernelSet : Called(settled[k])

\* C23: whatever the order in which the four concurrently started kernel
\* computations complete, the composite result is the one of evaluating the
\* kernels one after the other; the join settles once all four have; and
\* when a kernel fails the join is a failure and never a composite result,
\* settled as soon as a failing kernel has completed.
C23_JoinIsOrderIndependent ==
  /\ Called(joined) /\ joined.ok =>
       /\ AllSettled
       /\ joinBuffer.fails = {}
       /\ joined = SequentialComposite(joinDetector, joinBuffer)
  /\ AllSettled => Called(joined)
  /\ joinBuffer.fails # {} =>
       /\ Called(joined) => /\ ~joined.ok
                            /\ ~SequentialComposite(joinDetector, joinBuffer).ok
                            /\ joined.msg[1] = "Failed to calculate composite score"
       /\ (\E k \in joinBuffer.fails : Called(settled[k])) => Called(joined)

\* A calibrated composite joined after the four kernels settled.
C23_Witness ==
  /\ Called(joined)
  /\ joined.ok
  /\ joinDetector.useCalibration
  /\ joined.v.composite # Num(0)

\* A failure joined while a kernel that does not fail is still in flight.
C23_FailureWitness ==
  /\ Called(joined)
  /\ ~joined.ok
  /\ \E k \in KernelSet : settled[k] = NotCalled

(***************************************************************************)
(* The file operations, under SpecOps.                                     *)
(***************************************************************************)
Returned == fileOps.pc = "done" /\ fileOps.outcome.ok

\* The results a file operation is meant for: a blurry verdict, no error.
Operable(r) == "isBlurry" \in DOMAIN r /\ r.isBlurry /\ "error" \notin DOMAIN r

OperableFiles == {opsCall.results[i].file : i \in {j \in 1..Len(opsCall.results) : Operable(opsCall.results[j])}}

Sources(operations) == {operations[i].source : i \in 1..Len(operations)}

\* C24: under dryRun processBlurryFiles leaves the disk as it was at the
\* call, reports each blurry result without error, and no other, with status
\* 'dry-run', and returns successful = 0, failed = 0 and skipped = total.
C24_DryRunChangesNothing ==
  opsCall.dryRun =>
    /\ disk = opsCall.disk
    /\ fileOps.pc = "done" =>
         /\ fileOps.outcome.ok
         /\ fileOps.outcome.v.successful = 0
         /\ fileOps.outcome.v.failed = 0
         /\ fileOps.outcome.v.skipped = fileOps.outcome.v.total
         /\ fileOps.outcome.v.total = Cardinality(OperableFiles)
         /\ Len(fileOps.outcome.v.operations) = Cardinality(OperableFiles)
         /\ Sources(fileOps.outcome.v.operations) = OperableFiles
         /\ \A i \in 1..Len(fileOps.outcome.v.operations) :
              fileOps.outcome.v.operations[i].status = "dry-run"

\* A simulated copy of two blurry files, one result being an error, into a
\* directory that does not exist.
C24_Witness ==
  /\ opsCall.dryRun
  /\ ~opsCall.rename
  /\ Returned
  /\ opsCall.outputDir \notin disk.dirs
  /\ Len(fileOps.outcome.v.operations) = 2
  /\ Len(opsCall.results) = 3

CopyOrMove == ~opsCall.dryRun /\ ~opsCall.rename

\* The operations that succeeded left the content their source had at the
\* call at their destination.
ContentDelivered(operations) ==
  \A i \in 1..Len(operations) :
    operations[i].status = "success" =>
      /\ Exists(disk, operations[i].destination)
      /\ disk.files[operations[i].destination] = opsCall.disk.files[operations[i].source]

DistinctDestinations(operations) ==
  \A i, j \in 1..Len(operations) :
    i # j => operations[i].destination # operations[j].destination

\* C29: in copy or move mode, the results naming pairwise distinct source
\* paths, no two operations have the same destination and every successful
\* operation has its source content at its destination on return; only
\* blurry results without error are operated on; total = successful + failed
\* + skipped.
C29_DistinctDestinations ==
  CopyOrMove /\ Returned =>
    /\ DistinctDestinations(fileOps.outcome.v.operations)
    /\ ContentDelivered(fileOps.outcome.v.operations)
    /\ Sources(fileOps.outcome.v.operations) = OperableFiles
    /\ fileOps.outcome.v.total =
         fileOps.outcome.v.successful + fileOps.outcome.v.failed + fileOps.outcome.v.skipped

\* The same when the blurry files have pairwise distinct file names.
DestinationsOfDistinctNames ==
  /\ CopyOrMove
  /\ Returned
  /\ \A f, g \in OperableFiles : f # g => Basename(f) # Basename(g)
  => /\ DistinctDestinations(fileOps.outcome.v.operations)
     /\ ContentDelivered(fileOps.outcome.v.operations)
     /\ Sources(fileOps.outcome.v.operations) = OperableFiles
     /\ fileOps.outcome.v.total =
          fileOps.outcome.v.successful + fileOps.outcome.v.failed + fileOps.outcome.v.skipped

(***************************************************************************)
(* The score a patch-based result reports, under SpecCli.                  *)
(***************************************************************************)
\* The unrounded score the blurScore of the latest result was rounded from.
ReportedScore == ReportedStrategyScore(lastScore.v, blurDetector.strategy)

ScoreMatchesVerdict ==
  /\ LastResult.blurScore = Round2(ReportedScore)
  /\ LastResult.isBlurry = Lt(ReportedScore, LastResult.threshold)

\* C25: in every patch-based result, for any strategy string, isBlurry is
\* true exactly when the unrounded score the reported blurScore was rounded
\* from is below the threshold.
C25_ScoreMatchesVerdict ==
  JustAnalyzed /\ LastResult.algorithm = "patch-based" => ScoreMatchesVerdict

\* The same for the strategies the switch of isBlurry names.
ScoreMatchesVerdictOfNamedStrategy ==
  /\ JustAnalyzed
  /\ LastResult.algorithm = "patch-based"
  /\ blurDetector.strategy \in Strategies
  => ScoreMatchesVerdict

(***************************************************************************)
(* The aggregates of the patch composites, under SpecPatch.                *)
(***************************************************************************)
\* The aggregate scores of a patch-based result other than the extremes and
\* peakFocus.
AggregateFields ==
  {"centerWeighted", "subjectFocusAggressive", "subjectFocus", "subjectFocusConservative",
   "subjectFocusRelaxed", "subjectFocusStrict", "subjectFocusVeryStrict", "avgFocus",
   "medianFocus", "top25Percentile", "top10Percentile"}

AggregatesWithinExtremes ==
  \A f \in AggregateFields :
    /\ IsFin(patchOutcome.v[f])
    /\ Le(patchOutcome.v.minFocus, patchOutcome.v[f])
    /\ Le(patchOutcome.v[f], patchOutcome.v.maxFocus)

\* C26: for every grid size >= 1 and finite patch composites, the
\* center-weighted score, the six subject-focus variants, the average, the
\* median and the two top percentiles are finite numbers between minFocus
\* and maxFocus.
C26_AggregatesWithinExtremes ==
  PatchesScored /\ GridSize >= 1 => AggregatesWithinExtremes

\* The same for the grids of at least two patches a side.
AggregatesOfProperGrids ==
  PatchesScored /\ patchOutcome.v.patchesX >= 2 /\ patchOutcome.v.patchesY >= 2
    => AggregatesWithinExtremes

(***************************************************************************)
(* The record a Calibration object holds, under SpecHold.                  *)
(***************************************************************************)
\* The record held and the file after the i-th call.
HeldAfter(i) == IF i < Len(calls) THEN calls[i + 1].held ELSE holder.stats
FileAfter(i) == IF i < Len(calls) THEN calls[i + 1].file ELSE holderFile

FailedUpdate(i) == calls[i].op \in {"computeStats", "loadStats"} /\ ~calls[i].outcome.ok

NoStatisticsError(call) ==
  /\ ~call.outcome.ok
  /\ call.outcome.msg \in {<<"No statistics available. Run calibration first.">>,
                           <<"No statistics to save. Run computeStats first.">>}

\* C27: a computeStats or loadStats call that raises leaves the record held
\* as it was, so that a following getStats() or saveStats(path) returns
\* exactly the record held before, or fails for want of statistics when none
\* was; saveStats with no record held and none passed fails and leaves the
\* file as it was.
C27_FailedCallKeepsStats ==
  /\ \A i \in 1..Len(calls) : FailedUpdate(i) => HeldAfter(i) = calls[i].held
  /\ \A i \in 1..(Len(calls) - 1) :
       FailedUpdate(i) /\ calls[i + 1].op \in {"getStats", "saveStats"} =>
         IF HasStats(calls[i].held)
         THEN /\ calls[i + 1].outcome = Return(calls[i].held)
              /\ calls[i + 1].op = "saveStats" =>
                   FileAfter(i + 1) = WrittenFile(JsonStringify(calls[i].held))
         ELSE NoStatisticsError(calls[i + 1])
  /\ \A i \in 1..Len(calls) :
       calls[i].op = "saveStats" /\ ~HasStats(calls[i].held) =>
         /\ NoStatisticsError(calls[i])
         /\ FileAfter(i) = calls[i].file

\* computeStats returned a record, loadStats then failed on a file that is
\* not JSON, and getStats returned the record.
C27_Witness ==
  /\ Len(calls) = 3
  /\ calls[1].op = "computeStats" /\ calls[1].outcome.ok
  /\ calls[2].op = "loadStats" /\ ~calls[2].outcome.ok
  /\ calls[2].file = TruncatedFile
  /\ calls[3].op = "getStats"
  /\ calls[3].outcome = Return(calls[1].outcome.v)

\* saveStats failed for want of a record after a computeStats without valid
\* results, no file being written.
C27_EmptyWitness ==
  /\ Len(calls) = 2
  /\ calls[1].op = "computeStats" /\ ~calls[1].outcome.ok
  /\ calls[2].op = "saveStats" /\ ~calls[2].outcome.ok
  /\ holderFile = NoFile

(***************************************************************************)
(* The threshold of the results of concurrent analyze calls, under         *)
(* SpecFlight.                                                             *)
(***************************************************************************)
\* The call returned a result with a verdict.
Verdict(c) ==
  /\ flights[c].stage = "returned"
  /\ "error" \notin DOMAIN flights[c].result.v

\* The unrounded score the verdict of the call was decided on.
FlightScore(c) ==
  IF shared.algorithm = "patch-based"
  THEN StrategyScore(flights[c].rawScore.v, shared.strategy)
  ELSE IF shared.algorithm = "composite"
  THEN flights[c].rawScore.v.composite
  ELSE flights[c].rawScore.v

\* C28: whatever the interleaving of setThreshold calls with the analyze
\* calls in flight, the verdict of each result is its score compared against
\* the threshold the result reports.
C28_ReportedThresholdIsCompared ==
  \A c \in 1..MaxFlights :
    Verdict(c) =>
      flights[c].result.v.isBlurry = Lt(FlightScore(c), flights[c].result.v.threshold)

\* A result whose threshold was set while its call was in flight, the
\* threshold the detector had when the call was made giving the other
\* verdict.
C28_Witness ==
  \E c \in 1..MaxFlights :
    /\ Verdict(c)
    /\ flights[c].result.v.threshold # flights[c].snapshot.threshold
    /\ flights[c].result.v.isBlurry # Lt(FlightScore(c), flights[c].snapshot.threshold)

(***************************************************************************)
(* The scan of a single file, under SpecScan.                              *)
(***************************************************************************)
\* The path handed to scan is an existing regular file.
SingleFile == IsFilePath(scanCall.dirPath) /\ scanCall.dirPath \in scanCall.tree

\* The extension is one of the supported RAW formats, in any case.
SupportedExtension == ToLowerCase(scanCall.dirPath.ext) \in supportedFormats

\* C30: scan of an existing regular file returns the one-element list of its
\* resolved path when its extension is a supported RAW format, and fails
\* with 'Unsupported file format' when it is not: no list is returned for an
\* unsupported single file.
C30_SingleFileScan ==
  SingleFile /\ scanned.pc = "done" =>
    IF SupportedExtension
    THEN scanned.outcome = Return(<<Resolve(scanCall.dirPath)>>)
    ELSE /\ ~scanned.outcome.ok
         /\ scanned.outcome.msg[1] = "Unsupported file format"

\* The same for the single files of a supported format.
SupportedSingleFileScan ==
  SingleFile /\ SupportedExtension /\ scanned.pc = "done" =>
    scanned.outcome = Return(<<Resolve(scanCall.dirPath)>>)

====
